---- MODULE Spec2Model ----
(***************************************************************************)
(* The suggestion engine of the reminder application                       *)
(* (src/app/services/aiService.ts).                                        *)
(*                                                                         *)
(* A JavaScript string is a sequence of one-character strings, so that     *)
(* toLowerCase, trim, split, includes and startsWith are computed          *)
(* character by character, as the runtime computes them.                   *)
(***************************************************************************)
EXTENDS Integers, Sequences, FiniteSets, Bags, TLC

VARIABLES
  lembretes,          \* argument of gerarSugestoes: the reminders, in order
  textoAtual,         \* argument of gerarSugestoes: the text being typed
  pc,                 \* "chamada": the call is about to run, "retorno": it returned
  palavras,           \* local of gerarSugestoes (line 89)
  ultimaPalavra,      \* local of gerarSugestoes (line 90)
  palavrasFrequentes, \* local of gerarSugestoesContexto (line 148)
  sugestoesContexto,  \* local of gerarSugestoes (line 93)
  sugestoesPalavra,   \* local of gerarSugestoes (line 96)
  resultado,          \* the array gerarSugestoes returned
  bancos,             \* the three module-level arrays, as they are in memory
  chamadas,           \* how many calls of gerarSugestoes have returned
  \* src/app/HomeClient.tsx
  lembrete,           \* LembreteForm: state `lembrete` (line 68)
  dataInput,          \* LembreteForm: state `dataInput` (line 69)
  lembretesCliente,   \* HomeClient: state `lembretes` (line 293)
  editandoId,         \* HomeClient: state `editandoId` (line 296), Nulo for null
  lembreteEditando,   \* HomeClient: state `lembreteEditando` (line 297)
  dataEditando,       \* HomeClient: state `dataEditando` (line 298)
  erro,               \* HomeClient: state `erro` (line 301)
  carregando,         \* HomeClient: state `carregando` (line 302)
  deletandoId,        \* HomeClient: state `deletandoId` (line 303), Nulo for null
  pedidos,            \* the requests of the client that are awaiting their response
  evento,             \* the handler or continuation that ran last
  \* The date mask (spec.md, 4.1)
  entradaData,        \* the raw text given to format_input
  mascara,            \* the text format_input returned
  validade,           \* what is_valid_date returned, "pendente" before it is called
  anoAtual,           \* the current year
  pcMascara,          \* "digitado": format_input is about to run, "formatado": it returned
  \* src/app/api/lembretes/route.ts, src/app/api/lembretes/[id]/route.ts
  tabela,             \* the rows of the table Lembrete, in the order of their creation
  sequenciaId,        \* the last value of the serial of the column id
  emCurso,            \* the bag of the requests the routes are handling
  resposta,           \* the request the routes answered last, with its response
  \* src/app/components/SugestoesInput.tsx
  value,              \* prop `value`: the state of the parent that onChange sets
  historico,          \* prop `lembretes`: the reminders the parent passes
  sugestoes,          \* state `sugestoes` (line 36)
  mostrarSugestoes,   \* state `mostrarSugestoes` (line 37)
  sugestaoSelecionada, \* state `sugestaoSelecionada` (line 38), an index from 0
  depsEfeito,         \* [value, lembretes] as the effect of line 42 last saw them
  eventoInput         \* the event handled last, "escolha" for a click on a
                      \* suggestion and for an Enter that took the highlighted one

varsSugestoes ==
  <<lembretes, textoAtual, pc, palavras, ultimaPalavra, palavrasFrequentes,
    sugestoesContexto, sugestoesPalavra, resultado, bancos, chamadas>>

varsCliente ==
  <<lembrete, dataInput, lembretesCliente, editandoId, lembreteEditando,
    dataEditando, erro, carregando, deletandoId, pedidos, evento>>

varsMascara == <<entradaData, mascara, validade, anoAtual, pcMascara>>

varsApi == <<tabela, sequenciaId, emCurso, resposta>>

varsInput ==
  <<value, historico, sugestoes, mostrarSugestoes, sugestaoSelecionada,
    depsEfeito, eventoInput>>

vars == <<varsSugestoes, varsCliente, varsMascara, varsApi, varsInput>>

\* What a step of one component leaves alone.
foraDeSugestoes == <<varsCliente, varsMascara, varsApi, varsInput>>

foraDoCliente == <<varsSugestoes, varsMascara, varsApi, varsInput>>

foraDaMascara == <<varsSugestoes, varsCliente, varsApi, varsInput>>

foraDaApi == <<varsSugestoes, varsCliente, varsMascara, varsInput>>

foraDoInput == <<varsSugestoes, varsCliente, varsMascara, varsApi>>

----------------------------------------------------------------------------
(* Bounds of the model. *)

\* The longest history (number of reminders) a call is given.
MaxLembretes == 2

\* The largest number of space-separated words of the typed text.
MaxPalavras == 2

\* The shuffles considered walk the array with a stride of at most MaxPasso.
MaxPasso == 7

\* The longest sequence of calls of gerarSugestoes with the same history.
MaxChamadas == 3

\* The largest number of requests of the client awaiting their response.
MaxPedidos == 2

----------------------------------------------------------------------------
(* The static phrase banks. *)

SUGESTOES_PADRAO ==
  <<
     <<"L","e","m","b","r","e","-","s","e"," ","d","e">>,
     <<"V","e","r","i","f","i","c","a","r">>,
     <<"C","o","n","f","i","r","m","a","r">>,
     <<"A","g","e","n","d","a","r">>,
     <<"P","r","e","p","a","r","a","r">>,
     <<"R","e","v","i","s","a","r">>,
     <<"C","o","m","p","r","a","r">>,
     <<"P","a","g","a","r">>,
     <<"E","n","v","i","a","r">>,
     <<"R","e","c","e","b","e","r">>,
     <<"E","n","t","r","e","g","a","r">>,
     <<"P","a","r","t","i","c","i","p","a","r">>,
     <<"O","r","g","a","n","i","z","a","r">>,
     <<"L","i","m","p","a","r">>,
     <<"A","t","u","a","l","i","z","a","r">>,
     <<"V","e","r","i","f","i","c","a","r">>,
     <<"C","o","n","f","i","r","m","a","r">>,
     <<"F","i","n","a","l","i","z","a","r">>,
     <<"I","n","i","c","i","a","r">>,
     <<"C","o","n","t","i","n","u","a","r">>
  >>

PADROES_COMUNS ==
  <<
     <<"R","e","u","n","i","ã","o"," ","c","o","m">>,
     <<"P","r","a","z","o"," ","p","a","r","a">>,
     <<"E","n","t","r","e","g","a"," ","d","e">>,
     <<"P","a","g","a","m","e","n","t","o"," ","d","e">>,
     <<"C","o","m","p","r","a"," ","d","e">>,
     <<"C","o","n","s","u","l","t","a"," ","c","o","m">>,
     <<"A","n","i","v","e","r","s","á","r","i","o"," ","d","e">>,
     <<"E","v","e","n","t","o",":">>,
     <<"P","r","o","j","e","t","o",":">>,
     <<"T","a","r","e","f","a",":">>,
     <<"R","e","l","a","t","ó","r","i","o"," ","d","e">>,
     <<"A","p","r","e","s","e","n","t","a","ç","ã","o"," ","p","a","r","a">>,
     <<"T","r","e","i","n","a","m","e","n","t","o"," ","d","e">>,
     <<"M","a","n","u","t","e","n","ç","ã","o"," ","d","e">>,
     <<"R","e","v","i","s","ã","o"," ","d","e">>
  >>

CATEGORIAS_COMUNS ==
  <<
     <<"T","r","a","b","a","l","h","o">>,
     <<"P","e","s","s","o","a","l">>,
     <<"S","a","ú","d","e">>,
     <<"F","i","n","a","n","ç","a","s">>,
     <<"F","a","m","í","l","i","a">>,
     <<"A","m","i","g","o","s">>,
     <<"E","s","t","u","d","o","s">>,
     <<"L","a","z","e","r">>,
     <<"C","a","s","a">>,
     <<"C","o","m","p","r","a","s">>
  >>

\* The text `Categoria: ${cat}` of lines 114, 141 and 188.
Categoria(cat) == <<"C","a","t","e","g","o","r","i","a",":"," ">> \o cat

\* The categories of a list, each as it is suggested: the map of line 114,
\* the pushes of lines 141 and 188.
ComoCategorias(cats) == [i \in 1..Len(cats) |-> Categoria(cats[i])]

----------------------------------------------------------------------------
(* String and Array methods of the runtime that the service calls. *)

Maiusculas ==
  <<"A","B","C","D","E","F","G","H","I","J","K","L","M","N","O","P","Q","R",
    "S","T","U","V","W","X","Y","Z","Á","Â","Ã","Ç","É","Ê","Í","Ó","Ô","Õ","Ú">>

Minusculas ==
  <<"a","b","c","d","e","f","g","h","i","j","k","l","m","n","o","p","q","r",
    "s","t","u","v","w","x","y","z","á","â","ã","ç","é","ê","í","ó","ô","õ","ú">>

\* The lower-case form of each upper-case character of the alphabet.
MapaMinusculas ==
  [c \in {Maiusculas[i] : i \in 1..Len(Maiusculas)} |->
     Minusculas[CHOOSE i \in 1..Len(Maiusculas) : Maiusculas[i] = c]]

\* String.prototype.toLowerCase, one character.
ToLowerChar(c) == IF c \in DOMAIN MapaMinusculas THEN MapaMinusculas[c] ELSE c

\* String.prototype.toLowerCase.
ToLowerCase(s) == [i \in 1..Len(s) |-> ToLowerChar(s[i])]

\* The characters String.prototype.trim removes (those of the alphabet).
WhiteSpace == {" ", "\t", "\n", "\r"}

\* String.prototype.trim.
Trim(s) ==
  IF \A i \in 1..Len(s) : s[i] \in WhiteSpace
  THEN <<>>
  ELSE LET a == CHOOSE i \in 1..Len(s) :
                  s[i] \notin WhiteSpace /\ \A j \in 1..(i-1) : s[j] \in WhiteSpace
           b == CHOOSE i \in 1..Len(s) :
                  s[i] \notin WhiteSpace /\ \A j \in (i+1)..Len(s) : s[j] \in WhiteSpace
       IN  SubSeq(s, a, b)

\* String.prototype.split with a one-character separator.
RECURSIVE Split(_, _)
Split(s, sep) ==
  IF \A i \in 1..Len(s) : s[i] # sep
  THEN <<s>>
  ELSE LET k == CHOOSE i \in 1..Len(s) : s[i] = sep /\ \A j \in 1..(i-1) : s[j] # sep
       IN  <<SubSeq(s, 1, k-1)>> \o Split(SubSeq(s, k+1, Len(s)), sep)

\* String.prototype.includes.
Includes(s, sub) ==
  \E i \in 0..(Len(s) - Len(sub)) : SubSeq(s, i+1, i+Len(sub)) = sub

\* String.prototype.startsWith.
StartsWith(s, prefixo) ==
  Len(prefixo) <= Len(s) /\ SubSeq(s, 1, Len(prefixo)) = prefixo

\* Array.prototype.slice(0, n).
Slice(seq, n) == SubSeq(seq, 1, IF Len(seq) < n THEN Len(seq) ELSE n)

\* [...new Set(seq)]: the elements in the order of their first occurrence.
SetSpread(seq) ==
  LET primeiros == SelectSeq([i \in 1..Len(seq) |-> i],
                             LAMBDA i : \A j \in 1..(i-1) : seq[j] # seq[i])
  IN  [k \in 1..Len(primeiros) |-> seq[primeiros[k]]]

\* palavras.some(p => p.includes(trecho)) of lines 133, 140 and 150.
SomeIncludes(ps, trecho) == \E i \in 1..Len(ps) : Includes(ps[i], trecho)

----------------------------------------------------------------------------
(* analisarPalavrasFrequentes (lines 201-219).                             *)
(*                                                                         *)
(* The object `palavras` is the sequence of its own properties in the      *)
(* order of their creation, each a record [chave, valor].                  *)

Digitos == <<"0","1","2","3","4","5","6","7","8","9">>

EhDigito(c) == \E i \in 1..Len(Digitos) : Digitos[i] = c

ValorDigito(c) == (CHOOSE i \in 1..Len(Digitos) : Digitos[i] = c) - 1

\* The largest array index, 2^32 - 2, in decimal.
MaiorIndice == <<"4","2","9","4","9","6","7","2","9","4">>

\* a < b for two canonical decimal strings.
MenorNumerico(a, b) ==
  \/ Len(a) < Len(b)
  \/ /\ Len(a) = Len(b)
     /\ \E i \in 1..Len(a) :
          /\ \A j \in 1..(i-1) : a[j] = b[j]
          /\ ValorDigito(a[i]) < ValorDigito(b[i])

\* A property key that is an array index: own keys of this kind are
\* enumerated first, in ascending numeric order, whenever they were created.
EhIndice(chave) ==
  /\ Len(chave) > 0
  /\ \A i \in 1..Len(chave) : EhDigito(chave[i])
  /\ (Len(chave) = 1 \/ chave[1] # "0")
  /\ (chave = MaiorIndice \/ MenorNumerico(chave, MaiorIndice))

\* The one key of the vocabulary that `{}` inherits as an accessor: reading
\* palavras["__proto__"] gives Object.prototype, `(... || 0) + 1` is then a
\* string, and the inherited setter ignores a value that is no object, so the
\* assignment of line 209 creates no own property.  (The other inherited
\* all-lower-case key, "constructor", is outside the vocabulary of Textos.)
ChaveProto == <<"_","_","p","r","o","t","o","_","_">>

\* palavras[palavra] = (palavras[palavra] || 0) + 1   (line 209)
Contar(obj, palavra) ==
  IF palavra = ChaveProto
  THEN obj
  ELSE IF \E i \in 1..Len(obj) : obj[i].chave = palavra
       THEN LET i == CHOOSE i \in 1..Len(obj) : obj[i].chave = palavra
            IN  [obj EXCEPT ![i].valor = @ + 1]
       ELSE Append(obj, [chave |-> palavra, valor |-> 1])

\* The inner forEach of lines 207-211 over the words of one text.
RECURSIVE ContarPalavras(_, _)
ContarPalavras(obj, ps) ==
  IF ps = <<>>
  THEN obj
  ELSE ContarPalavras(IF Len(Head(ps)) > 2 THEN Contar(obj, Head(ps)) ELSE obj,
                      Tail(ps))

\* The outer forEach of lines 205-212 over the reminders.
RECURSIVE ContarLembretes(_, _)
ContarLembretes(obj, ls) ==
  IF ls = <<>>
  THEN obj
  ELSE ContarLembretes(
         ContarPalavras(obj, Split(ToLowerCase(Head(ls).texto), " ")),
         Tail(ls))

\* Object.entries (line 215): the array-index keys in ascending numeric
\* order, then the other keys in the order of their creation.
ObjectEntries(obj) ==
  LET ind    == SelectSeq(obj, LAMBDA e : EhIndice(e.chave))
      outros == SelectSeq(obj, LAMBDA e : ~EhIndice(e.chave))
      posto  == [i \in 1..Len(ind) |->
                   Cardinality({j \in 1..Len(ind) :
                                  MenorNumerico(ind[j].chave, ind[i].chave)}) + 1]
      asc    == [r \in 1..Len(ind) |->
                   ind[CHOOSE i \in 1..Len(ind) : posto[i] = r]]
  IN  asc \o outros

\* .sort(([, a], [, b]) => b - a) (line 216): the stable sort by descending
\* count (every count is a number here, so the comparator is consistent).
SortDesc(es) ==
  LET posto == [i \in 1..Len(es) |->
                  Cardinality({j \in 1..Len(es) : es[j].valor > es[i].valor})
                  + Cardinality({j \in 1..(i-1) : es[j].valor = es[i].valor})
                  + 1]
  IN  [r \in 1..Len(es) |-> es[CHOOSE i \in 1..Len(es) : posto[i] = r]]

analisarPalavrasFrequentes(ls) ==
  LET entradas == Slice(SortDesc(ObjectEntries(ContarLembretes(<<>>, ls))), 10)
  IN  [i \in 1..Len(entradas) |-> entradas[i].chave]

----------------------------------------------------------------------------
(* The passes of gerarSugestoes. *)

\* The value of palavrasFrequentes (lines 146-148); with no reminder the
\* analysis is not run and nothing is iterated.
PalavrasFrequentesDe(ls) ==
  IF Len(ls) > 0 THEN analisarPalavrasFrequentes(ls) ELSE <<>>

RECURSIVE Join(_, _)
Join(ps, sep) ==
  IF Len(ps) = 1 THEN ps[1] ELSE ps[1] \o <<sep>> \o Join(Tail(ps), sep)

\* gerarSugestoesContexto matching the patterns against the whole typed text
\* instead of its words.
gerarSugestoesContexto_TextoInteiro(frequentes, ps) ==
  LET texto      == <<Join(ps, " ")>>
      padroes    == SelectSeq(PADROES_COMUNS,
                              LAMBDA p : SomeIncludes(texto, ToLowerCase(p)))
      categorias == SelectSeq(CATEGORIAS_COMUNS,
                              LAMBDA c : SomeIncludes(ps, ToLowerCase(c)))
      doHistorico == SelectSeq(frequentes,
                               LAMBDA w : SomeIncludes(ps, ToLowerCase(w)))
  IN  padroes \o ComoCategorias(categorias) \o doHistorico

\* gerarSugestoesContexto looking at the last typed word only.
gerarSugestoesContexto_SoUltima(frequentes, ps) ==
  LET ultima     == <<ps[Len(ps)]>>
      padroes    == SelectSeq(PADROES_COMUNS,
                              LAMBDA p : SomeIncludes(ultima, ToLowerCase(p)))
      categorias == SelectSeq(CATEGORIAS_COMUNS,
                              LAMBDA c : SomeIncludes(ultima, ToLowerCase(c)))
      doHistorico == SelectSeq(frequentes,
                               LAMBDA w : SomeIncludes(ultima, ToLowerCase(w)))
  IN  padroes \o ComoCategorias(categorias) \o doHistorico

\* gerarSugestoesContexto (lines 128-157), `frequentes` being the value of
\* palavrasFrequentes for its argument lembretes.
gerarSugestoesContexto(frequentes, ps) ==
  LET padroes    == SelectSeq(PADROES_COMUNS,
                              LAMBDA p : SomeIncludes(ps, ToLowerCase(p)))
      categorias == SelectSeq(CATEGORIAS_COMUNS,
                              LAMBDA c : SomeIncludes(ps, ToLowerCase(c)))
      doHistorico == SelectSeq(frequentes,
                               LAMBDA w : SomeIncludes(ps, ToLowerCase(w)))
  IN  padroes \o ComoCategorias(categorias) \o doHistorico

\* gerarSugestoesPalavra with includes in place of startsWith.
gerarSugestoesPalavra_Includes(ultima) ==
  IF Len(ultima) < 2
  THEN <<>>
  ELSE SelectSeq(SUGESTOES_PADRAO, LAMBDA s : Includes(ToLowerCase(s), ultima))
       \o SelectSeq(PADROES_COMUNS, LAMBDA p : Includes(ToLowerCase(p), ultima))
       \o ComoCategorias(SelectSeq(CATEGORIAS_COMUNS,
                           LAMBDA c : Includes(ToLowerCase(c), ultima)))

\* gerarSugestoesPalavra skipping words of up to 2 characters.
gerarSugestoesPalavra_GuardaTres(ultima) ==
  IF Len(ultima) <= 2
  THEN <<>>
  ELSE SelectSeq(SUGESTOES_PADRAO, LAMBDA s : StartsWith(ToLowerCase(s), ultima))
       \o SelectSeq(PADROES_COMUNS, LAMBDA p : StartsWith(ToLowerCase(p), ultima))
       \o ComoCategorias(SelectSeq(CATEGORIAS_COMUNS,
                           LAMBDA c : StartsWith(ToLowerCase(c), ultima)))

\* gerarSugestoesPalavra without the early return of line 169.
gerarSugestoesPalavra_SemGuarda(ultima) ==
  SelectSeq(SUGESTOES_PADRAO, LAMBDA s : StartsWith(ToLowerCase(s), ultima))
  \o SelectSeq(PADROES_COMUNS, LAMBDA p : StartsWith(ToLowerCase(p), ultima))
  \o ComoCategorias(SelectSeq(CATEGORIAS_COMUNS,
                      LAMBDA c : StartsWith(ToLowerCase(c), ultima)))

\* gerarSugestoesPalavra (lines 165-193).
gerarSugestoesPalavra(ultima) ==
  IF Len(ultima) < 2
  THEN <<>>
  ELSE SelectSeq(SUGESTOES_PADRAO, LAMBDA s : StartsWith(ToLowerCase(s), ultima))
       \o SelectSeq(PADROES_COMUNS, LAMBDA p : StartsWith(ToLowerCase(p), ultima))
       \o ComoCategorias(SelectSeq(CATEGORIAS_COMUNS,
                           LAMBDA c : StartsWith(ToLowerCase(c), ultima)))

\* Lines 99-102 without the slice.
Combinar_SemLimite(contexto, palavra) == SetSpread(contexto \o palavra)

\* Lines 99-102 without the Set.
Combinar_SemSet(contexto, palavra) == Slice(contexto \o palavra, 5)

\* Lines 99-102 falling back to the first entries of the action bank when
\* nothing matched.
Combinar_PadraoSeVazio(contexto, palavra) ==
  IF contexto \o palavra = <<>>
  THEN Slice(SUGESTOES_PADRAO, 5)
  ELSE Slice(SetSpread(contexto \o palavra), 5)

\* Lines 99-102: [...new Set([...contexto, ...palavra])].slice(0, 5).
Combinar(contexto, palavra) == Slice(SetSpread(contexto \o palavra), 5)

\* The array gerarSugestoesPadrao builds (lines 111-115).
TodasPadrao ==
  SUGESTOES_PADRAO \o PADROES_COMUNS \o ComoCategorias(CATEGORIAS_COMUNS)

RECURSIVE MDC(_, _)
MDC(a, b) == IF b = 0 THEN a ELSE MDC(b, a % b)

\* sort(() => Math.random() - 0.5) (line 118) leaves the array in an order
\* that depends on the random draws: `ordem` is that order, ordem[i] being
\* the original position of the element that ends at position i.  The orders
\* considered start anywhere and walk the array with a stride that is
\* coprime with its length, so each is a permutation.
Embaralhamentos ==
  LET n == Len(TodasPadrao)
  IN  { [i \in 1..n |-> ((inicio - 1 + (i - 1) * passo) % n) + 1] :
          inicio \in 1..n,
          passo \in {d \in 1..MaxPasso : MDC(d, n) = 1} }

\* gerarSugestoesPadrao (lines 110-119), the sort having produced `ordem`.
gerarSugestoesPadrao(ordem) ==
  Slice([i \in 1..Len(TodasPadrao) |-> TodasPadrao[ordem[i]]], 5)

\* !textoAtual (line 84 without the trim).
EmBranco_SemTrim(texto) == texto = <<>>

\* !textoAtual.trim() (line 84).
EmBranco(texto) == Trim(texto) = <<>>

----------------------------------------------------------------------------
(* The arguments a call is given. *)

\* The texts of the reminders of a history.
Textos ==
  { <<"P","a","g","a","r"," ","c","o","n","t","a"," ","d","e"," ","l","u","z">>,
    <<"P","a","g","a","r"," ","c","o","n","t","a"," ","d","e"," ","á","g","u","a">>,
    <<"C","o","m","p","r","a","r"," ","p","ã","o"," ","l","e","i","t","e"," ","o","v","o","s"," ","c","a","f","é"," ","a","r","r","o","z"," ","f","r","u","t","a","s"," ","2","0","2","4"," ","1","0","0"," ","_","_","p","r","o","t","o","_","_">> }

\* The space-separated pieces of a typed text.
Pedacos ==
  { <<>>, <<"p">>, <<"T","r">>, <<"c","o">>, <<"e","v","e","n","t","o",":">>, <<"x","c","a","s","a">>, <<"c","o","n","t","a","s">>,
    <<"_","_","p","r","o","t","o","_","_">> }

\* A typed text of white space other than spaces alone.
SoEspacos == { <<"\t"," ","\n">> }

Historicos ==
  UNION { [1..n -> {[texto |-> t] : t \in Textos}] : n \in 0..MaxLembretes }

Entradas ==
  { Join(ps, " ") : ps \in UNION { [1..n -> Pedacos] : n \in 1..MaxPalavras } }
  \cup SoEspacos

----------------------------------------------------------------------------
(* The state machine: a call of gerarSugestoes with its arguments, then    *)
(* its return.                                                             *)

\* null, for editandoId and deletandoId; the ids of the reminders are the
\* serial numbers of the table, 1 or more.
Nulo == 0

\* The page (src/app/HomeClient.tsx) is not mounted.
ClienteParado ==
  /\ lembrete = <<>>
  /\ dataInput = <<>>
  /\ lembretesCliente = <<>>
  /\ editandoId = Nulo
  /\ lembreteEditando = <<>>
  /\ dataEditando = <<>>
  /\ erro = ""
  /\ carregando = FALSE
  /\ deletandoId = Nulo
  /\ pedidos = <<>>
  /\ evento = ""

\* The arrays of lines 19-73 as the module creates them.
BancosLiterais ==
  [ sugestoes  |-> SUGESTOES_PADRAO,
    padroes    |-> PADROES_COMUNS,
    categorias |-> CATEGORIAS_COMUNS ]

\* The suggestion engine is not loaded: its arrays are not in memory.
SugestoesParado ==
  /\ bancos = [sugestoes |-> <<>>, padroes |-> <<>>, categorias |-> <<>>]
  /\ chamadas = 0
  /\ lembretes = <<>>
  /\ textoAtual = <<>>
  /\ pc = "parado"
  /\ palavras = <<>>
  /\ ultimaPalavra = <<>>
  /\ palavrasFrequentes = <<>>
  /\ sugestoesContexto = <<>>
  /\ sugestoesPalavra = <<>>
  /\ resultado = <<>>

\* The date mask is not in use.
MascaraParada ==
  /\ entradaData = <<>>
  /\ mascara = <<>>
  /\ validade = "pendente"
  /\ anoAtual = 0
  /\ pcMascara = "parado"

\* The routes have received no request and the table is empty.
ApiParada ==
  /\ tabela = <<>>
  /\ sequenciaId = 0
  /\ emCurso = EmptyBag
  /\ resposta = <<>>

\* No SugestoesInput is mounted.
InputParado ==
  /\ value = <<>>
  /\ historico = <<>>
  /\ sugestoes = <<>>
  /\ mostrarSugestoes = FALSE
  /\ sugestaoSelecionada = -1
  /\ depsEfeito = <<>>
  /\ eventoInput = "desmontado"

InitSugestoes ==
  /\ InputParado
  /\ ClienteParado
  /\ MascaraParada
  /\ ApiParada
  /\ bancos = BancosLiterais
  /\ chamadas = 0
  /\ lembretes \in Historicos
  /\ textoAtual \in Entradas
  /\ pc = "chamada"
  /\ palavras = <<>>
  /\ ultimaPalavra = <<>>
  /\ palavrasFrequentes = <<>>
  /\ sugestoesContexto = <<>>
  /\ sugestoesPalavra = <<>>
  /\ resultado = <<>>

\* gerarSugestoes with the sort of line 118 applied to the action bank
\* itself instead of the array built from the banks.
GerarSugestoes_OrdenaOBanco ==
  /\ pc = "chamada"
  /\ pc' = "retorno"
  /\ chamadas' = chamadas + 1
  /\ UNCHANGED <<lembretes, textoAtual>>
  /\ UNCHANGED foraDeSugestoes
  /\ IF EmBranco(textoAtual)
     THEN /\ \E ordem \in Embaralhamentos :
               resultado' = gerarSugestoesPadrao(ordem)
          /\ bancos' =
               [bancos EXCEPT !.sugestoes =
                  [i \in 1..Len(@) |-> @[Len(@) + 1 - i]]]
          /\ UNCHANGED <<palavras, ultimaPalavra, palavrasFrequentes,
                         sugestoesContexto, sugestoesPalavra>>
     ELSE /\ palavras' = Split(ToLowerCase(textoAtual), " ")
          /\ ultimaPalavra' = palavras'[Len(palavras')]
          /\ palavrasFrequentes' = PalavrasFrequentesDe(lembretes)
          /\ sugestoesContexto' =
               gerarSugestoesContexto(palavrasFrequentes', palavras')
          /\ sugestoesPalavra' = gerarSugestoesPalavra(ultimaPalavra')
          /\ resultado' = Combinar(sugestoesContexto', sugestoesPalavra')
          /\ UNCHANGED bancos

\* gerarSugestoes (lines 82-103).  No statement of the module assigns to
\* the banks or to the array `lembretes`, and the one method that changes
\* its receiver, the sort of line 118, is called on the array that lines
\* 111-115 build.
GerarSugestoes ==
  /\ pc = "chamada"
  /\ pc' = "retorno"
  /\ chamadas' = chamadas + 1
  /\ UNCHANGED <<lembretes, textoAtual, bancos>>
  /\ UNCHANGED foraDeSugestoes
  /\ IF EmBranco(textoAtual)
     THEN /\ \E ordem \in Embaralhamentos :
               resultado' = gerarSugestoesPadrao(ordem)
          /\ UNCHANGED <<palavras, ultimaPalavra, palavrasFrequentes,
                         sugestoesContexto, sugestoesPalavra>>
     ELSE /\ palavras' = Split(ToLowerCase(textoAtual), " ")
          /\ ultimaPalavra' = palavras'[Len(palavras')]
          /\ palavrasFrequentes' = PalavrasFrequentesDe(lembretes)
          /\ sugestoesContexto' =
               gerarSugestoesContexto(palavrasFrequentes', palavras')
          /\ sugestoesPalavra' = gerarSugestoesPalavra(ultimaPalavra')
          /\ resultado' = Combinar(sugestoesContexto', sugestoesPalavra')

NextSugestoes == GerarSugestoes

SpecSugestoes == InitSugestoes /\ [][NextSugestoes]_vars

----------------------------------------------------------------------------
(* A sequence of calls with the same history array.                        *)

\* The texts of the calls after the first.
Retomadas == SoEspacos \cup { <<"c","o">>, <<"c","o","n","t","a","s">> }

\* The caller calls gerarSugestoes again, with the array it passed before
\* and another text.
NovaChamada ==
  /\ pc = "retorno"
  /\ chamadas < MaxChamadas
  /\ pc' = "chamada"
  /\ textoAtual' \in Retomadas
  /\ palavras' = <<>>
  /\ ultimaPalavra' = <<>>
  /\ palavrasFrequentes' = <<>>
  /\ sugestoesContexto' = <<>>
  /\ sugestoesPalavra' = <<>>
  /\ resultado' = <<>>
  /\ UNCHANGED <<lembretes, bancos, chamadas>>
  /\ UNCHANGED foraDeSugestoes

NextChamadas == GerarSugestoes \/ NovaChamada

SpecChamadas == InitSugestoes /\ [][NextChamadas]_vars

----------------------------------------------------------------------------
(* Vocabulary of the properties.                                           *)

\* The set of the elements of a sequence.
Elems(seq) == {seq[i] : i \in 1..Len(seq)}

\* No element occurs twice.
SemRepeticao(seq) ==
  \A i, j \in 1..Len(seq) : i # j => seq[i] # seq[j]

\* A text that is empty or made of spaces, tabs and newlines only.
SoBrancos(texto) == \A i \in 1..Len(texto) : texto[i] \in {" ", "\t", "\n"}

\* The call returned, for a blank text / for a text that is not blank.
RetornouEmBranco == pc = "retorno" /\ SoBrancos(textoAtual)

RetornouComTexto == pc = "retorno" /\ ~SoBrancos(textoAtual)

\* The part of a text after its last space (the whole text if it has none).
UltimoTrecho(texto) ==
  LET espacos == {i \in 1..Len(texto) : texto[i] = " "}
      k == IF espacos = {} THEN 0
           ELSE CHOOSE i \in espacos : \A j \in espacos : j <= i
  IN  SubSeq(texto, k + 1, Len(texto))

\* The first n elements of a sequence (all of them if it is shorter).
Primeiros(seq, n) == [i \in 1..(IF Len(seq) < n THEN Len(seq) ELSE n) |-> seq[i]]

\* A sequence without the later occurrences of its elements.
RECURSIVE SemPosteriores(_)
SemPosteriores(seq) ==
  IF seq = <<>>
  THEN <<>>
  ELSE LET antes == SemPosteriores(SubSeq(seq, 1, Len(seq) - 1))
       IN  IF seq[Len(seq)] \in Elems(antes)
           THEN antes
           ELSE Append(antes, seq[Len(seq)])

\* The members of the three banks as they are suggested.
EntradasDosBancos ==
  Elems(SUGESTOES_PADRAO) \cup Elems(PADROES_COMUNS)
  \cup {<<"C","a","t","e","g","o","r","i","a",":"," ">> \o CATEGORIAS_COMUNS[i] : i \in 1..Len(CATEGORIAS_COMUNS)}

----------------------------------------------------------------------------
(* C1.  For a blank text gerarSugestoes returns 5 pairwise distinct        *)
(* strings, whatever the shuffle does.  The action bank lists "Verificar"  *)
(* and "Confirmar" twice, so a shuffle can return one of them twice.       *)
C1_CincoDistintas ==
  RetornouEmBranco => (Len(resultado) = 5 /\ SemRepeticao(resultado))

----------------------------------------------------------------------------
(* C2.  Whatever the history and the text, gerarSugestoes returns at most  *)
(* 5 entries.                                                              *)
C2_NoMaximoCinco == pc = "retorno" => Len(resultado) <= 5

\* A call with more than 5 distinct candidates returned exactly 5.
C2_Witness ==
  /\ RetornouComTexto
  /\ Cardinality(Elems(sugestoesContexto \o sugestoesPalavra)) > 5
  /\ Len(resultado) = 5

----------------------------------------------------------------------------
(* C3.  For a blank text (empty, or spaces, tabs and newlines only)        *)
(* gerarSugestoes returns exactly 5 entries, each a member of the action   *)
(* bank, of the pattern bank or "Categoria: " followed by a category,      *)
(* whatever the history.                                                   *)
C3_CincoDosBancos ==
  RetornouEmBranco =>
    /\ Len(resultado) = 5
    /\ \A i \in 1..Len(resultado) : resultado[i] \in EntradasDosBancos

\* A call with a text of tab, space and newline and a non-empty history
\* returned a category among its 5 entries.
C3_Witness ==
  /\ RetornouEmBranco
  /\ \E i \in 1..Len(textoAtual) : textoAtual[i] = "\t"
  /\ lembretes # <<>>
  /\ Len(resultado) = 5
  /\ \E i \in 1..Len(resultado) : resultado[i] = <<"C","a","t","e","g","o","r","i","a",":"," ","C","a","s","a">>

----------------------------------------------------------------------------
(* C4.  For a text that is not blank the result is the first 5 elements    *)
(* of the context candidates followed by the prefix candidates with every  *)
(* later duplicate removed: it has no duplicate, and a context candidate   *)
(* never comes after a candidate that only the prefix pass contributed.    *)
C4_UniaoOrdenada ==
  RetornouComTexto =>
    /\ resultado =
         Primeiros(SemPosteriores(sugestoesContexto \o sugestoesPalavra), 5)
    /\ SemRepeticao(resultado)
    /\ \A i, j \in 1..Len(resultado) :
         (/\ resultado[i] \in Elems(sugestoesContexto)
          /\ resultado[j] \notin Elems(sugestoesContexto)) => i < j

\* Both passes contributed, a duplicate was dropped and the list was cut.
C4_Witness ==
  /\ RetornouComTexto
  /\ sugestoesContexto # <<>>
  /\ Elems(sugestoesPalavra) \ Elems(sugestoesContexto) # {}
  /\ ~SemRepeticao(sugestoesContexto \o sugestoesPalavra)
  /\ Cardinality(Elems(sugestoesContexto \o sugestoesPalavra)) > 5

----------------------------------------------------------------------------
(* Vocabulary of the properties about the two passes.                      *)

\* The lower-cased text has `trecho` inside one of its space-separated words.
AlgumaPalavraContem(texto, trecho) ==
  LET ps == Split(ToLowerCase(texto), " ")
  IN  \E i \in 1..Len(ps) : Includes(ps[i], trecho)

\* A single word of at least 2 characters that contains no category name
\* and no pattern phrase, typed with an empty history.
UmaPalavraSemContexto ==
  /\ pc = "retorno"
  /\ lembretes = <<>>
  /\ Len(textoAtual) >= 2
  /\ \A i \in 1..Len(textoAtual) : textoAtual[i] \notin {" ", "\t", "\n"}
  /\ \A i \in 1..Len(PADROES_COMUNS) :
       ~Includes(ToLowerCase(textoAtual), ToLowerCase(PADROES_COMUNS[i]))
  /\ \A i \in 1..Len(CATEGORIAS_COMUNS) :
       ~Includes(ToLowerCase(textoAtual), ToLowerCase(CATEGORIAS_COMUNS[i]))

\* `entrada` starts with `texto`, letter case apart.
ComecaCom(entrada, texto) == StartsWith(ToLowerCase(entrada), ToLowerCase(texto))

----------------------------------------------------------------------------
(* C5, as claimed.  For an empty history and a single word w of at least   *)
(* 2 characters containing no category name and no pattern phrase, every   *)
(* string gerarSugestoes returns starts with w, letter case apart.  A      *)
(* category is returned as "Categoria: " followed by its name, which does  *)
(* not start with w.                                                       *)
C5_TodasComecamComW ==
  UmaPalavraSemContexto =>
    \A i \in 1..Len(resultado) : ComecaCom(resultado[i], textoAtual)

(* C5, as amended.  Under the same conditions every string returned is an  *)
(* entry of the action bank or of the pattern bank that starts with w,     *)
(* letter case apart, or "Categoria: " followed by a category name that    *)
(* starts with w, letter case apart.                                       *)
C5_EntradasQueComecamComW ==
  UmaPalavraSemContexto =>
    \A i \in 1..Len(resultado) :
      \/ /\ resultado[i] \in Elems(SUGESTOES_PADRAO) \cup Elems(PADROES_COMUNS)
         /\ ComecaCom(resultado[i], textoAtual)
      \/ \E k \in 1..Len(CATEGORIAS_COMUNS) :
           /\ resultado[i] = <<"C","a","t","e","g","o","r","i","a",":"," ">> \o CATEGORIAS_COMUNS[k]
           /\ ComecaCom(CATEGORIAS_COMUNS[k], textoAtual)

\* "Tr" returned a pattern and a category.
C5_Witness ==
  /\ UmaPalavraSemContexto
  /\ textoAtual = <<"T","r">>
  /\ resultado = << <<"T","r","e","i","n","a","m","e","n","t","o"," ","d","e">>, <<"C","a","t","e","g","o","r","i","a",":"," ","T","r","a","b","a","l","h","o">> >>

----------------------------------------------------------------------------
(* C6.  For a text that is not blank whose last word has at least 2        *)
(* characters, every entry of the three banks that starts with that word,  *)
(* letter case apart, is a prefix candidate (a category as "Categoria: "   *)
(* followed by its name), and is in the result whenever the candidates of  *)
(* both passes are at most 5 distinct strings.                             *)
C6_PrefixosCompletos ==
  (RetornouComTexto /\ Len(UltimoTrecho(textoAtual)) >= 2) =>
    LET cauda == UltimoTrecho(textoAtual)
        cabe  == Cardinality(Elems(sugestoesContexto \o sugestoesPalavra)) <= 5
        Candidato(s) == /\ s \in Elems(sugestoesPalavra)
                        /\ cabe => s \in Elems(resultado)
    IN  /\ \A i \in 1..Len(SUGESTOES_PADRAO) :
             ComecaCom(SUGESTOES_PADRAO[i], cauda) => Candidato(SUGESTOES_PADRAO[i])
        /\ \A i \in 1..Len(PADROES_COMUNS) :
             ComecaCom(PADROES_COMUNS[i], cauda) => Candidato(PADROES_COMUNS[i])
        /\ \A i \in 1..Len(CATEGORIAS_COMUNS) :
             ComecaCom(CATEGORIAS_COMUNS[i], cauda) =>
               Candidato(<<"C","a","t","e","g","o","r","i","a",":"," ">> \o CATEGORIAS_COMUNS[i])

\* A two-character last word after another word gave a pattern and a
\* category, both returned.
C6_Witness ==
  /\ RetornouComTexto
  /\ UltimoTrecho(textoAtual) = <<"T","r">>
  /\ Len(textoAtual) > 2
  /\ <<"T","r","e","i","n","a","m","e","n","t","o"," ","d","e">> \in Elems(resultado)
  /\ <<"C","a","t","e","g","o","r","i","a",":"," ","T","r","a","b","a","l","h","o">> \in Elems(resultado)

----------------------------------------------------------------------------
(* C7.  For a text that is not blank, a pattern phrase is a context        *)
(* candidate exactly when its lower-cased text is inside one of the        *)
(* space-separated words of the lower-cased text, whatever the position    *)
(* of that word; likewise a category, as "Categoria: " followed by its     *)
(* name.                                                                   *)
C7_ContextoPorSubstring ==
  RetornouComTexto =>
    /\ \A i \in 1..Len(PADROES_COMUNS) :
         PADROES_COMUNS[i] \in Elems(sugestoesContexto)
           <=> AlgumaPalavraContem(textoAtual, ToLowerCase(PADROES_COMUNS[i]))
    /\ \A i \in 1..Len(CATEGORIAS_COMUNS) :
         (<<"C","a","t","e","g","o","r","i","a",":"," ">> \o CATEGORIAS_COMUNS[i]) \in Elems(sugestoesContexto)
           <=> AlgumaPalavraContem(textoAtual, ToLowerCase(CATEGORIAS_COMUNS[i]))

\* A category inside the first word, and a pattern that is the first word,
\* are candidates although the last word contains neither.
C7_Witness ==
  /\ RetornouComTexto
  /\ <<"C","a","t","e","g","o","r","i","a",":"," ","C","a","s","a">> \in Elems(sugestoesContexto)
  /\ ~Includes(ToLowerCase(UltimoTrecho(textoAtual)), <<"c","a","s","a">>)
  /\ Len(UltimoTrecho(textoAtual)) >= 2

----------------------------------------------------------------------------
(* Vocabulary of the properties about the history.                         *)

\* The words of the history, lower-cased, in the order they are read.
RECURSIVE PalavrasDoHistorico(_)
PalavrasDoHistorico(ls) ==
  IF ls = <<>>
  THEN <<>>
  ELSE Split(ToLowerCase(Head(ls).texto), " ") \o PalavrasDoHistorico(Tail(ls))

\* How many times the word occurs in the history, and where it occurs first.
Ocorrencias(ls, w) ==
  LET ps == PalavrasDoHistorico(ls)
  IN  Cardinality({i \in 1..Len(ps) : ps[i] = w})

PrimeiraVez(ls, w) ==
  LET ps == PalavrasDoHistorico(ls)
  IN  CHOOSE i \in 1..Len(ps) : ps[i] = w /\ \A j \in 1..(i-1) : ps[j] # w

\* The words of the history of more than 2 characters.
PalavrasContadas(ls) == {w \in Elems(PalavrasDoHistorico(ls)) : Len(w) > 2}

----------------------------------------------------------------------------
(* C8.  A word of the history is a context candidate exactly when it has   *)
(* more than 2 characters, is among the 10 most frequent such words of the *)
(* history (letter case apart) and is inside a word of the lower-cased     *)
(* text.  Stated so that no order among equally frequent words is assumed: *)
(* a candidate has fewer than 10 words more frequent than it, and a word   *)
(* with fewer than 10 other words at least as frequent is a candidate.     *)
(* The word "__proto__" is never counted, so it is never a candidate.      *)
C8_DezMaisFrequentes ==
  RetornouComTexto =>
    \A w \in Elems(PalavrasDoHistorico(lembretes)) :
      LET contadas == PalavrasContadas(lembretes)
          mais  == {v \in contadas :
                      Ocorrencias(lembretes, v) > Ocorrencias(lembretes, w)}
          tanto == {v \in contadas \ {w} :
                      Ocorrencias(lembretes, v) >= Ocorrencias(lembretes, w)}
          casa  == AlgumaPalavraContem(textoAtual, w)
      IN  /\ w \in Elems(sugestoesContexto) =>
               (Len(w) > 2 /\ Cardinality(mais) < 10 /\ casa)
          /\ (Len(w) > 2 /\ Cardinality(tanto) < 10 /\ casa) =>
               w \in Elems(sugestoesContexto)

----------------------------------------------------------------------------
(* C9.  The frequent words are in descending order of their number of      *)
(* occurrences, and words that occur equally often are in the order in     *)
(* which they were first read, also when words are digit strings.  The     *)
(* entries of an object are enumerated with the digit-string keys first,   *)
(* in numeric order, so "100" and "2024" come before words read earlier.   *)
C9_OrdemDoPrimeiroEncontro ==
  (RetornouComTexto /\ lembretes # <<>>) =>
    \A i, j \in 1..Len(palavrasFrequentes) :
      i < j =>
        LET a == palavrasFrequentes[i]
            b == palavrasFrequentes[j]
        IN  \/ Ocorrencias(lembretes, a) > Ocorrencias(lembretes, b)
            \/ /\ Ocorrencias(lembretes, a) = Ocorrencias(lembretes, b)
               /\ PrimeiraVez(lembretes, a) < PrimeiraVez(lembretes, b)

----------------------------------------------------------------------------
(* C10.  When the last space-separated word of a text that is not blank    *)
(* has fewer than 2 characters (one character, or none after a trailing    *)
(* space), the prefix pass contributes nothing: the result is the first 5  *)
(* context candidates.                                                     *)
C10_SoContexto ==
  (RetornouComTexto /\ Len(UltimoTrecho(textoAtual)) < 2) =>
    /\ sugestoesPalavra = <<>>
    /\ resultado = Primeiros(sugestoesContexto, 5)
    /\ \A i \in 1..Len(resultado) :
         \/ resultado[i] \in Elems(palavrasFrequentes)
         \/ AlgumaPalavraContem(textoAtual, ToLowerCase(resultado[i]))
         \/ \E k \in 1..Len(CATEGORIAS_COMUNS) :
              /\ resultado[i] = <<"C","a","t","e","g","o","r","i","a",":"," ">> \o CATEGORIAS_COMUNS[k]
              /\ AlgumaPalavraContem(textoAtual, ToLowerCase(CATEGORIAS_COMUNS[k]))

\* A one-character last word: the context candidates were returned, and an
\* entry of the action bank that starts with that character was not.
C10_Witness ==
  /\ RetornouComTexto
  /\ Len(UltimoTrecho(textoAtual)) = 1
  /\ resultado # <<>>
  /\ \E i \in 1..Len(SUGESTOES_PADRAO) :
       /\ ComecaCom(SUGESTOES_PADRAO[i], UltimoTrecho(textoAtual))
       /\ SUGESTOES_PADRAO[i] \notin Elems(resultado)

----------------------------------------------------------------------------
(* Vocabulary of the property about a text that matches nothing.           *)

\* Nothing of the banks or of the history matches the text: no word of the
\* text contains a pattern, a category or a word of the history of more than
\* 2 characters, and no bank entry starts with a last word of 2 characters
\* or more.
NenhumCandidato ==
  LET cauda == UltimoTrecho(textoAtual)
  IN  /\ \A i \in 1..Len(PADROES_COMUNS) :
           ~AlgumaPalavraContem(textoAtual, ToLowerCase(PADROES_COMUNS[i]))
      /\ \A i \in 1..Len(CATEGORIAS_COMUNS) :
           ~AlgumaPalavraContem(textoAtual, ToLowerCase(CATEGORIAS_COMUNS[i]))
      /\ \A w \in PalavrasContadas(lembretes) :
           ~AlgumaPalavraContem(textoAtual, w)
      /\ \/ Len(cauda) < 2
         \/ /\ \A i \in 1..Len(SUGESTOES_PADRAO) :
                 ~ComecaCom(SUGESTOES_PADRAO[i], cauda)
            /\ \A i \in 1..Len(PADROES_COMUNS) :
                 ~ComecaCom(PADROES_COMUNS[i], cauda)
            /\ \A i \in 1..Len(CATEGORIAS_COMUNS) :
                 ~ComecaCom(CATEGORIAS_COMUNS[i], cauda)

----------------------------------------------------------------------------
(* C11.  For a text that is not blank and that nothing of the banks or of  *)
(* the history matches, gerarSugestoes returns the empty list; and what it *)
(* returns for a text that is not blank is made of candidates of the two   *)
(* passes only, never of the default list.                                 *)
C11_SemCandidatosListaVazia ==
  RetornouComTexto =>
    /\ NenhumCandidato => resultado = <<>>
    /\ Elems(resultado) \subseteq
         Elems(sugestoesContexto) \cup Elems(sugestoesPalavra)

\* A word of 6 characters typed with a history that does not contain it
\* returned nothing.
C11_Witness ==
  /\ RetornouComTexto
  /\ NenhumCandidato
  /\ lembretes # <<>>
  /\ Len(UltimoTrecho(textoAtual)) >= 2
  /\ resultado = <<>>

----------------------------------------------------------------------------
(* C12.  Through any sequence of calls of gerarSugestoes, with blank texts *)
(* (the shuffling default path) and texts that are not blank, the three    *)
(* phrase banks keep the content and the order the module gave them, and   *)
(* the history array the caller passed keeps its content and its order.    *)
C12_BancosEHistoricoIntactos ==
  /\ [](bancos = BancosLiterais)
  /\ [][lembretes' = lembretes]_vars

\* The third call, with a blank text and a history of two reminders,
\* returned a shuffled list.
C12_Witness ==
  /\ pc = "retorno"
  /\ chamadas = 3
  /\ Len(lembretes) = 2
  /\ EmBranco(textoAtual)
  /\ Len(resultado) = 5
  /\ resultado # Primeiros(TodasPadrao, 5)

----------------------------------------------------------------------------
(* The Date of the runtime, as far as the client (src/app/HomeClient.tsx,  *)
(* src/app/components/DatePicker.tsx) and the routes use it.               *)
(*                                                                         *)
(* A Date is the record [valida, dias, ms]: the day of its time value      *)
(* counted from 1970-01-01 in UTC and the milliseconds within that day;    *)
(* the Date whose time value is NaN is InvalidDate.  A number is the       *)
(* record [nan, n]; undefined converts to NaN wherever it is used here.    *)

InvalidDate == [valida |-> FALSE, dias |-> 0, ms |-> 0]

DateDe(dias, ms) == [valida |-> TRUE, dias |-> dias, ms |-> ms]

NaN == [nan |-> TRUE, n |-> 0]

Numero(n) == [nan |-> FALSE, n |-> n]

\* What a statement that throws a RangeError leaves in place of a string.
RangeError == <<"RangeError">>

\* The day number of the civil date a-m-d (proleptic Gregorian calendar).
DiasDesdeCivil(a, m, d) ==
  LET y   == IF m <= 2 THEN a - 1 ELSE a
      era == y \div 400
      yoe == y - era * 400
      doy == (153 * (IF m > 2 THEN m - 3 ELSE m + 9) + 2) \div 5 + d - 1
      doe == yoe * 365 + yoe \div 4 - yoe \div 100 + doy
  IN  era * 146097 + doe - 719468

\* The civil date [ano, mes, dia] of a day number.
CivilDeDias(n) ==
  LET z   == n + 719468
      era == z \div 146097
      doe == z - era * 146097
      yoe == (doe - doe \div 1460 + doe \div 36524 - doe \div 146096) \div 365
      doy == doe - (365 * yoe + yoe \div 4 - yoe \div 100)
      mp  == (5 * doy + 2) \div 153
      d   == doy - (153 * mp + 2) \div 5 + 1
      m   == IF mp < 10 THEN mp + 3 ELSE mp - 9
  IN  [ano |-> yoe + era * 400 + (IF m <= 2 THEN 1 ELSE 0), mes |-> m, dia |-> d]

RECURSIVE Potencia10(_)
Potencia10(k) == IF k = 0 THEN 1 ELSE 10 * Potencia10(k - 1)

\* The decimal digits of n in `largura` characters, zero-padded.
Pad(n, largura) ==
  [i \in 1..largura |-> Digitos[((n \div Potencia10(largura - i)) % 10) + 1]]

\* Date.prototype.toISOString for a year of 0 to 9999:
\* YYYY-MM-DDTHH:mm:ss.sssZ; it throws a RangeError for InvalidDate.
ToISOString(date) ==
  IF ~date.valida
  THEN RangeError
  ELSE LET c == CivilDeDias(date.dias)
           s == date.ms \div 1000
       IN  Pad(c.ano, 4) \o <<"-">> \o Pad(c.mes, 2) \o <<"-">> \o Pad(c.dia, 2)
           \o <<"T">> \o Pad(s \div 3600, 2) \o <<":">> \o Pad((s \div 60) % 60, 2)
           \o <<":">> \o Pad(s % 60, 2) \o <<".">> \o Pad(date.ms % 1000, 3)
           \o <<"Z">>

\* Number(s) for a string of the client: the empty string is 0, a string of
\* decimal digits is its value, and a string with any of - : . T Z / or a
\* letter in it is no numeric literal.
NumberDe(s) ==
  IF s = <<>> THEN Numero(0)
  ELSE IF \A i \in 1..Len(s) : EhDigito(s[i])
       THEN LET valor[k \in 0..Len(s)] ==
                  IF k = 0 THEN 0 ELSE 10 * valor[k - 1] + ValorDigito(s[k])
            IN  Numero(valor[Len(s)])
       ELSE NaN

----------------------------------------------------------------------------
(* The client: HomeClient, its LembreteForm and the date pickers           *)
(* (src/app/HomeClient.tsx, src/app/components/DatePicker.tsx).            *)

\* new Date(ano, mesIndice, dia) (line 492): the local midnight of that day,
\* `fuso` being the minutes the local time is ahead of UTC.  A NaN argument
\* gives the invalid Date; a month index or a day out of range carries over.
NovaDataLocal(ano, mesIndice, dia, fuso) ==
  IF ano.nan \/ mesIndice.nan \/ dia.nan
  THEN InvalidDate
  ELSE LET a  == IF ano.n \in 0..99 THEN 1900 + ano.n ELSE ano.n
           am == a + (mesIndice.n \div 12)
           mm == mesIndice.n % 12
           local == DiasDesdeCivil(am, mm + 1, 1) + dia.n - 1
       IN  IF fuso > 0
           THEN DateDe(local - 1, (1440 - fuso) * 60000)
           ELSE DateDe(local, (0 - fuso) * 60000)

\* mes - 1 (line 492).
MenosUm(x) == IF x.nan THEN NaN ELSE Numero(x.n - 1)

\* Lines 491-492 of salvarEdicao:
\*   const [dia, mes, ano] = dataEditando.split('/').map(Number);
\*   const dataISO = new Date(ano, mes - 1, dia).toISOString().split('T')[0];
\* An element the destructuring does not find is undefined, which is NaN as
\* an argument of Date; toISOString throws for the invalid Date.
ConverterData(data, fuso) ==
  LET partes == Split(data, "/")
      nums   == [i \in 1..Len(partes) |-> NumberDe(partes[i])]
      dia    == nums[1]
      mes    == IF Len(nums) >= 2 THEN nums[2] ELSE NaN
      ano    == IF Len(nums) >= 3 THEN nums[3] ELSE NaN
      iso    == ToISOString(NovaDataLocal(ano, MenosUm(mes), dia, fuso))
  IN  IF iso = RangeError THEN RangeError ELSE Split(iso, "T")[1]

\* The messages of setErro.
ErroCampos    == "Por favor, preencha todos os campos"
ErroCarregar  == "Erro ao carregar lembretes. Tente novamente."
ErroSalvar    == "Erro ao salvar lembrete. Tente novamente."
ErroDeletar   == "Erro ao deletar o lembrete. Tente novamente."
ErroAtualizar == "Erro ao atualizar lembrete. Tente novamente."

\* A request awaiting its response: its method, the id of its URL (Nulo when
\* it has none) and the texto and data of its body (empty when it has none).
Pedido(metodo, id, texto, data) ==
  [metodo |-> metodo, id |-> id, texto |-> texto, data |-> data]

\* A sequence without its i-th element.
Sem(seq, i) == SubSeq(seq, 1, i - 1) \o SubSeq(seq, i + 1, Len(seq))

----------------------------------------------------------------------------
(* What the user and the server give the client. *)

\* The texts the user types.
TextosDigitados == { <<"P","a","g","a","r"," ","l","u","z">> }

\* The Dates a date picker hands to handleDateChange.
DatasEscolhidas ==
  { DateDe(DiasDesdeCivil(2024, 5, 10), 3 * 3600000),
    DateDe(DiasDesdeCivil(2024, 2, 29), 0) }

\* The time zones of the browser, in minutes ahead of UTC.
Fusos == { 0 - 180, 60 }

\* The reminders the server lists: a DateTime reaches the client as the
\* text toISOString gives.
ItemServidor(id) ==
  [ id    |-> id,
    texto |-> IF id = 1 THEN <<"P","a","g","a","r"," ","c","o","n","t","a"," ","d","e"," ","l","u","z">> ELSE <<"R","e","u","n","i","ã","o">>,
    data  |-> ToISOString(DateDe(DiasDesdeCivil(2024, 5, 9 + id), 0)) ]

ListasServidor ==
  { <<>>, <<ItemServidor(1)>>, <<ItemServidor(1), ItemServidor(2)>> }

\* How a request ends: response.ok, a response that is not ok, or a fetch
\* (or a response.json()) that rejects.
Respostas == { "ok", "nao ok", "falha" }

----------------------------------------------------------------------------
(* The state machine of the client: a step is a handler run by an event of *)
(* the user, up to its first await, or the continuation of a handler run   *)
(* by the response to its request.                                         *)

\* The states of lines 68-69 and 293-303 after the effect of lines 335-337
\* called buscarLembretes, which ran up to its fetch (lines 316-317).
InitCliente ==
  /\ InputParado
  /\ SugestoesParado
  /\ MascaraParada
  /\ ApiParada
  /\ lembrete = <<>>
  /\ dataInput = <<>>
  /\ lembretesCliente = <<>>
  /\ editandoId = Nulo
  /\ lembreteEditando = <<>>
  /\ dataEditando = <<>>
  /\ erro = ""
  /\ carregando = TRUE
  /\ deletandoId = Nulo
  /\ pedidos = << Pedido("GET", Nulo, <<>>, <<>>) >>
  /\ evento = "useEffect"

\* The creation form is shown (line 548).
FormularioDeCriacao == editandoId = Nulo

\* The user types in the text input of the creation form (line 102).
setLembrete ==
  /\ FormularioDeCriacao
  /\ \E t \in TextosDigitados \cup {<<>>} :
       /\ t # lembrete
       /\ lembrete' = t
  /\ evento' = "setLembrete"
  /\ UNCHANGED <<dataInput, lembretesCliente, editandoId, lembreteEditando,
                 dataEditando, erro, carregando, deletandoId, pedidos>>
  /\ UNCHANGED foraDoCliente

\* The user picks a day in the date picker of the creation form:
\* handleDateChange of DatePicker.tsx (lines 36-43) calls onChange, which is
\* handleDataChange (lines 79-81), with date.toISOString().  Nothing is
\* handed over for a null date.
handleDataChange ==
  /\ FormularioDeCriacao
  /\ \E date \in DatasEscolhidas : dataInput' = ToISOString(date)
  /\ evento' = "handleDataChange"
  /\ UNCHANGED <<lembrete, lembretesCliente, editandoId, lembreteEditando,
                 dataEditando, erro, carregando, deletandoId, pedidos>>
  /\ UNCHANGED foraDoCliente

\* The user clicks the save button of the creation form, enabled by line
\* 127: handleSubmit of LembreteForm (lines 72-76) calls handleSubmit of
\* HomeClient (lines 348-377), which runs up to its fetch, and then empties
\* the two fields.
LembreteForm_handleSubmit ==
  /\ FormularioDeCriacao
  /\ ~(carregando \/ lembrete = <<>> \/ dataInput = <<>>)
  /\ Len(pedidos) < MaxPedidos
  /\ IF lembrete = <<>> \/ dataInput = <<>>
     THEN /\ erro' = ErroCampos
          /\ UNCHANGED <<carregando, pedidos>>
     ELSE /\ carregando' = TRUE
          /\ erro' = ""
          /\ pedidos' = Append(pedidos, Pedido("POST", Nulo, lembrete, dataInput))
  /\ lembrete' = <<>>
  /\ dataInput' = <<>>
  /\ evento' = "LembreteForm.handleSubmit"
  /\ UNCHANGED <<lembretesCliente, editandoId, lembreteEditando, dataEditando,
                 deletandoId>>
  /\ UNCHANGED foraDoCliente

\* The user clicks the edit button of a listed reminder (lines 423-427).
\* The edit form replaces the creation form (line 548), whose state is
\* discarded with it.
iniciarEdicao ==
  /\ \E i \in 1..Len(lembretesCliente) :
       LET item == lembretesCliente[i]
       IN  /\ editandoId' = item.id
           /\ lembreteEditando' = item.texto
           /\ dataEditando' = item.data
  /\ lembrete' = <<>>
  /\ dataInput' = <<>>
  /\ evento' = "iniciarEdicao"
  /\ UNCHANGED <<lembretesCliente, erro, carregando, deletandoId, pedidos>>
  /\ UNCHANGED foraDoCliente

\* The user clicks the cancel button of the edit form, enabled by line 603
\* (lines 439-444).
cancelarEdicao ==
  /\ ~FormularioDeCriacao
  /\ ~carregando
  /\ editandoId' = Nulo
  /\ lembreteEditando' = <<>>
  /\ dataEditando' = <<>>
  /\ erro' = ""
  /\ evento' = "cancelarEdicao"
  /\ UNCHANGED <<lembrete, dataInput, lembretesCliente, carregando,
                 deletandoId, pedidos>>
  /\ UNCHANGED foraDoCliente

\* The user types in the text input of the edit form (line 562).
setLembreteEditando ==
  /\ ~FormularioDeCriacao
  /\ \E t \in TextosDigitados \cup {<<>>} :
       /\ t # lembreteEditando
       /\ lembreteEditando' = t
  /\ evento' = "setLembreteEditando"
  /\ UNCHANGED <<lembrete, dataInput, lembretesCliente, editandoId,
                 dataEditando, erro, carregando, deletandoId, pedidos>>
  /\ UNCHANGED foraDoCliente

\* The user picks a day in the date picker of the edit form: handleDateChange
\* of DatePicker.tsx calls onChange, which is setDataEditando (line 576).
setDataEditando ==
  /\ ~FormularioDeCriacao
  /\ \E date \in DatasEscolhidas : dataEditando' = ToISOString(date)
  /\ evento' = "setDataEditando"
  /\ UNCHANGED <<lembrete, dataInput, lembretesCliente, editandoId,
                 lembreteEditando, erro, carregando, deletandoId, pedidos>>
  /\ UNCHANGED foraDoCliente

\* The user clicks the save button of the edit form, enabled by line 584:
\* salvarEdicao (lines 481-521) up to its fetch, or to the end of its catch
\* and finally when line 492 throws.
salvarEdicao ==
  /\ ~FormularioDeCriacao
  /\ ~(carregando \/ lembreteEditando = <<>> \/ dataEditando = <<>>)
  /\ Len(pedidos) < MaxPedidos
  /\ IF lembreteEditando = <<>> \/ dataEditando = <<>>
     THEN /\ erro' = ErroCampos
          /\ evento' = "salvarEdicao:return"
          /\ UNCHANGED <<carregando, pedidos>>
     ELSE \E fuso \in Fusos :
            LET dataISO == ConverterData(dataEditando, fuso)
            IN  IF dataISO = RangeError
                THEN /\ erro' = ErroAtualizar
                     /\ carregando' = FALSE
                     /\ evento' = "salvarEdicao:catch"
                     /\ UNCHANGED pedidos
                ELSE /\ erro' = ""
                     /\ carregando' = TRUE
                     /\ evento' = "salvarEdicao:fetch"
                     /\ pedidos' =
                          Append(pedidos,
                                 Pedido("PUT", editandoId, lembreteEditando, dataISO))
  /\ UNCHANGED <<lembrete, dataInput, lembretesCliente, editandoId,
                 lembreteEditando, dataEditando, deletandoId>>
  /\ UNCHANGED foraDoCliente

\* The user clicks the delete button of a listed reminder, enabled by line
\* 240: handleDelete (lines 389-410) up to its fetch.
handleDelete ==
  /\ Len(pedidos) < MaxPedidos
  /\ \E i \in 1..Len(lembretesCliente) :
       /\ deletandoId # lembretesCliente[i].id
       /\ pedidos' =
            Append(pedidos, Pedido("DELETE", lembretesCliente[i].id, <<>>, <<>>))
  /\ carregando' = TRUE
  /\ erro' = ""
  /\ evento' = "handleDelete:fetch"
  /\ UNCHANGED <<lembrete, dataInput, lembretesCliente, editandoId,
                 lembreteEditando, dataEditando, deletandoId>>
  /\ UNCHANGED foraDoCliente

\* buscarLembretes (lines 314-332) from its fetch on, for the response r.
\* It catches what it throws, so a handler that awaits it goes on to its
\* own finally, which sets carregando to false once more.
ContinuarBuscar(r) ==
  /\ IF r = "ok"
     THEN /\ \E lista \in ListasServidor : lembretesCliente' = lista
          /\ erro' = ""
     ELSE /\ erro' = ErroCarregar
          /\ UNCHANGED lembretesCliente
  /\ carregando' = FALSE
  /\ evento' = "buscarLembretes:fim"
  /\ UNCHANGED <<editandoId, lembreteEditando, dataEditando>>

\* handleSubmit of HomeClient (lines 364-376) from its fetch on: for a
\* response that is ok it calls buscarLembretes, which runs up to its fetch.
ContinuarSubmit(i, r) ==
  /\ IF r = "ok"
     THEN /\ carregando' = TRUE
          /\ pedidos' = [pedidos EXCEPT ![i] = Pedido("GET", Nulo, <<>>, <<>>)]
          /\ evento' = "handleSubmit:buscar"
          /\ UNCHANGED erro
     ELSE /\ erro' = ErroSalvar
          /\ carregando' = FALSE
          /\ pedidos' = Sem(pedidos, i)
          /\ evento' = "handleSubmit:catch"
  /\ UNCHANGED <<lembretesCliente, editandoId, lembreteEditando, dataEditando>>

\* salvarEdicao (lines 505-520) from its fetch on: for a response that is ok
\* it leaves the edit mode and calls buscarLembretes.
ContinuarSalvar(i, r) ==
  /\ IF r = "ok"
     THEN /\ editandoId' = Nulo
          /\ lembreteEditando' = <<>>
          /\ dataEditando' = <<>>
          /\ carregando' = TRUE
          /\ pedidos' = [pedidos EXCEPT ![i] = Pedido("GET", Nulo, <<>>, <<>>)]
          /\ evento' = "salvarEdicao:buscar"
          /\ UNCHANGED erro
     ELSE /\ erro' = ErroAtualizar
          /\ carregando' = FALSE
          /\ pedidos' = Sem(pedidos, i)
          /\ evento' = "salvarEdicao:catch"
          /\ UNCHANGED <<editandoId, lembreteEditando, dataEditando>>
  /\ UNCHANGED lembretesCliente

\* handleDelete (lines 398-409) from its fetch on.
ContinuarDelete(i, r) ==
  /\ IF r = "ok"
     THEN /\ lembretesCliente' =
               SelectSeq(lembretesCliente, LAMBDA l : l.id # pedidos[i].id)
          /\ evento' = "handleDelete:fim"
          /\ UNCHANGED erro
     ELSE /\ erro' = ErroDeletar
          /\ evento' = "handleDelete:catch"
          /\ UNCHANGED lembretesCliente
  /\ carregando' = FALSE
  /\ pedidos' = Sem(pedidos, i)
  /\ UNCHANGED <<editandoId, lembreteEditando, dataEditando>>

\* The response to a request arrives and the handler that awaits it goes on
\* to its end or to its next fetch.
Resposta ==
  /\ \E i \in 1..Len(pedidos), r \in Respostas :
       CASE pedidos[i].metodo = "GET" ->
              ContinuarBuscar(r) /\ pedidos' = Sem(pedidos, i)
         [] pedidos[i].metodo = "POST" -> ContinuarSubmit(i, r)
         [] pedidos[i].metodo = "PUT" -> ContinuarSalvar(i, r)
         [] pedidos[i].metodo = "DELETE" -> ContinuarDelete(i, r)
  /\ UNCHANGED <<lembrete, dataInput, deletandoId>>
  /\ UNCHANGED foraDoCliente

NextCliente ==
  \/ setLembrete
  \/ handleDataChange
  \/ LembreteForm_handleSubmit
  \/ iniciarEdicao
  \/ cancelarEdicao
  \/ setLembreteEditando
  \/ setDataEditando
  \/ salvarEdicao
  \/ handleDelete
  \/ Resposta

SpecCliente == InitCliente /\ [][NextCliente]_vars

----------------------------------------------------------------------------
(* Vocabulary of the properties about the date fields of the forms.        *)

\* A text of at most 10 characters that is DD/MM/YYYY or a prefix of it:
\* digits, with a "/" as its 3rd and as its 6th character.
PrefixoDeMascara(s) ==
  /\ Len(s) <= 10
  /\ \A i \in 1..Len(s) :
       IF i \in {3, 6} THEN s[i] = "/" ELSE EhDigito(s[i])

----------------------------------------------------------------------------
(* C13.  The date the date input hands to the form, kept in dataInput or   *)
(* in dataEditando, is always a text of at most 10 characters that is      *)
(* DD/MM/YYYY or a prefix of it.  The date picker hands over the text of   *)
(* toISOString, of 24 characters, and iniciarEdicao copies the text of the *)
(* listed reminder, which is of that form too.                             *)
C13_DataComoMascara ==
  /\ PrefixoDeMascara(dataInput)
  /\ PrefixoDeMascara(dataEditando)

----------------------------------------------------------------------------
(* C17.  After the submit of the creation form dataInput is empty, and     *)
(* after cancelarEdicao and after salvarEdicao has run to its end, with    *)
(* the reminder saved or not, dataEditando is empty.  salvarEdicao empties *)
(* the fields only after a response that is ok; when line 492 throws, or   *)
(* the request fails, dataEditando keeps its text.                         *)
C17_DataVaziaAposSubmeterOuCancelar ==
  /\ evento = "LembreteForm.handleSubmit" => dataInput = <<>>
  /\ evento \in {"cancelarEdicao", "salvarEdicao:catch", "salvarEdicao:buscar"}
       => dataEditando = <<>>

\* No request of the client is ever a PUT: line 492 throws for every text
\* dataEditando holds when the save button of the edit form is enabled.
NenhumPUT == \A i \in 1..Len(pedidos) : pedidos[i].metodo # "PUT"

----------------------------------------------------------------------------
(* The date mask (spec.md, section 4.1).  No file of src/ defines          *)
(* format_input or is_valid_date, or calls them: the two operations and    *)
(* their caller are modelled from the specification.                       *)

\* format_input with a separator after the 2nd and the 4th character of the
\* raw text, digits or not.
format_input_SemFiltro(raw) ==
  LET c == Slice(raw, 8)
  IN  IF Len(c) <= 2 THEN c
      ELSE IF Len(c) <= 4
           THEN SubSeq(c, 1, 2) \o <<"/">> \o SubSeq(c, 3, Len(c))
           ELSE SubSeq(c, 1, 2) \o <<"/">> \o SubSeq(c, 3, 4) \o <<"/">>
                \o SubSeq(c, 5, Len(c))

\* format_input keeping the first 8 characters of the raw text before it
\* strips what is no digit.
format_input_CortaAntes(raw) ==
  LET d == SelectSeq(Slice(raw, 8), LAMBDA c : EhDigito(c))
  IN  IF Len(d) <= 2 THEN d
      ELSE IF Len(d) <= 4
           THEN SubSeq(d, 1, 2) \o <<"/">> \o SubSeq(d, 3, Len(d))
           ELSE SubSeq(d, 1, 2) \o <<"/">> \o SubSeq(d, 3, 4) \o <<"/">>
                \o SubSeq(d, 5, Len(d))

\* format_input: strips every character that is no digit, keeps the first 8
\* digits and puts a separator after the 2nd and after the 4th of them when
\* a digit follows, giving a prefix of DD, DD/MM or DD/MM/YYYY.
format_input(raw) ==
  LET d == Slice(SelectSeq(raw, LAMBDA c : EhDigito(c)), 8)
  IN  IF Len(d) <= 2 THEN d
      ELSE IF Len(d) <= 4
           THEN SubSeq(d, 1, 2) \o <<"/">> \o SubSeq(d, 3, Len(d))
           ELSE SubSeq(d, 1, 2) \o <<"/">> \o SubSeq(d, 3, 4) \o <<"/">>
                \o SubSeq(d, 5, Len(d))

\* A component of a date that is an integer: a text of digits.
EhInteiro(p) == p # <<>> /\ \A i \in 1..Len(p) : EhDigito(p[i])

\* The standard Gregorian rule: divisible by 4, except centuries unless
\* divisible by 400.
ano_bissexto(ano) == ano % 4 = 0 /\ (ano % 100 # 0 \/ ano % 400 = 0)

\* The number of days of a month of a year.
dias_no_mes(mes, ano) ==
  IF mes = 2 THEN (IF ano_bissexto(ano) THEN 29 ELSE 28)
  ELSE IF mes \in {4, 6, 9, 11} THEN 30 ELSE 31

\* is_valid_date without the limits of the year.
is_valid_date_SemLimiteDeAno(formatted, corrente) ==
  LET partes == Split(formatted, "/")
  IN  /\ Len(partes) = 3
      /\ \A i \in 1..3 : EhInteiro(partes[i])
      /\ LET dia == NumberDe(partes[1]).n
             mes == NumberDe(partes[2]).n
             ano == NumberDe(partes[3]).n
         IN  /\ mes \in 1..12
             /\ dia >= 1
             /\ dia <= dias_no_mes(mes, ano)

\* is_valid_date: splits on "/" into day, month and year; false if a
\* component is no integer, if the month is not in 1..12, if the day is not
\* in 1..days of the month, or if the year is not in 1980..current year + 10.
is_valid_date(formatted, corrente) ==
  LET partes == Split(formatted, "/")
  IN  /\ Len(partes) = 3
      /\ \A i \in 1..3 : EhInteiro(partes[i])
      /\ LET dia == NumberDe(partes[1]).n
             mes == NumberDe(partes[2]).n
             ano == NumberDe(partes[3]).n
         IN  /\ mes \in 1..12
             /\ dia >= 1
             /\ dia <= dias_no_mes(mes, ano)
             /\ ano >= 1980
             /\ ano <= corrente + 10

----------------------------------------------------------------------------
(* The texts given to the mask. *)

DiasDigitados == { <<"0","0">>, <<"0","1">>, <<"1","5">>, <<"2","8">>, <<"2","9">>, <<"3","0">>,
                   <<"3","1">>, <<"3","2">> }

MesesDigitados == { <<"0","0">>, <<"0","1">>, <<"0","2">>, <<"0","4">>, <<"1","2">>, <<"1","3">> }

AnosDigitados == { <<"1","9","0","0">>, <<"1","9","7","9">>, <<"1","9","8","0">>, <<"2","0","0","0">>, <<"2","0","2","3">>,
                   <<"2","0","2","4">>, <<"2","0","3","4">>, <<"2","0","3","5">>, <<"2","0","3","6">>, <<"2","0","3","7">>,
                   <<"2","1","0","0">> }

\* Texts that are no date.
TextosSoltos ==
  { <<>>, <<"a","b","c">>, <<"1","a","2","b","3">>, <<"1","2","/","3">>, <<"1","/","2","/","3">>, <<"/","/">>, <<" ","3"," ">>,
    <<"3","1","-","1","2","-","2","0","2","4">>, <<"0","1","0","2","-","2","0","2","4","x","y","z">>, <<"1","2","3","4","5","6","7","8","9","0","1","2">>, <<"2","9","0","2","2","0","2","4">> }

EntradasData ==
  { d \o <<"/">> \o m \o <<"/">> \o a :
      d \in DiasDigitados, m \in MesesDigitados, a \in AnosDigitados }
  \cup TextosSoltos

\* The keys of the user.
Teclas == { "1", "9", "/", "a" }

\* The years in which the mask is used.
AnosCorrentes == { 2024, 2026 }

----------------------------------------------------------------------------
(* The state machine of the mask: the caller gives format_input the raw    *)
(* text of every keystroke and shows what it returns; it calls             *)
(* is_valid_date only when the mask has exactly 10 characters.             *)

InitMascara ==
  /\ InputParado
  /\ SugestoesParado
  /\ ClienteParado
  /\ ApiParada
  /\ entradaData \in EntradasData
  /\ anoAtual \in AnosCorrentes
  /\ mascara = <<>>
  /\ validade = "pendente"
  /\ pcMascara = "digitado"

Formatar ==
  /\ pcMascara = "digitado"
  /\ pcMascara' = "formatado"
  /\ mascara' = format_input(entradaData)
  /\ validade' = IF Len(mascara') = 10
                 THEN (IF is_valid_date(mascara', anoAtual)
                       THEN "valida" ELSE "invalida")
                 ELSE "pendente"
  /\ UNCHANGED <<entradaData, anoAtual>>
  /\ UNCHANGED foraDaMascara

\* The user types a character after the mask.
Digitar ==
  /\ pcMascara = "formatado"
  /\ pcMascara' = "digitado"
  /\ \E c \in Teclas : entradaData' = Append(mascara, c)
  /\ UNCHANGED <<mascara, validade, anoAtual>>
  /\ UNCHANGED foraDaMascara

\* The user deletes the last character of the mask.
Apagar ==
  /\ pcMascara = "formatado"
  /\ mascara # <<>>
  /\ pcMascara' = "digitado"
  /\ entradaData' = SubSeq(mascara, 1, Len(mascara) - 1)
  /\ UNCHANGED <<mascara, validade, anoAtual>>
  /\ UNCHANGED foraDaMascara

NextMascara == Formatar \/ Digitar \/ Apagar

SpecMascara == InitMascara /\ [][NextMascara]_vars

----------------------------------------------------------------------------
(* Vocabulary of the properties about the date mask.                       *)

\* The digits of a text, in their order.
RECURSIVE SoDigitos(_)
SoDigitos(s) ==
  IF s = <<>>
  THEN <<>>
  ELSE (IF EhDigito(Head(s)) THEN <<Head(s)>> ELSE <<>>) \o SoDigitos(Tail(s))

\* The mask is a whole DD/MM/YYYY and has been looked at.
MascaraCompleta ==
  pcMascara = "formatado" /\ Len(mascara) = 10 /\ PrefixoDeMascara(mascara)

\* The day, the month and the year of a whole mask.
DiaDaMascara == NumberDe(SubSeq(mascara, 1, 2)).n

MesDaMascara == NumberDe(SubSeq(mascara, 4, 5)).n

AnoDaMascara == NumberDe(SubSeq(mascara, 7, 10)).n

\* The day d of the month m of the year a exists in the calendar: the day
\* number of a-m-d is the day number of that very date.
DataDoCalendario(d, m, a) ==
  /\ m \in 1..12
  /\ d >= 1
  /\ CivilDeDias(DiasDesdeCivil(a, m, d)) = [ano |-> a, mes |-> m, dia |-> d]

----------------------------------------------------------------------------
(* C14.  is_valid_date of a text DD/MM/YYYY is true exactly when the month *)
(* is in 1..12, the day is in 1..days of that month, February having 29    *)
(* days in the leap years of the Gregorian rule only, and the year is in   *)
(* 1980..current year + 10.  29/02/2024 is valid; 29/02/2023, 31/04/2024,  *)
(* 15/13/2024 and 01/01/1979 are not.                                      *)
C14_DataValida ==
  MascaraCompleta =>
    /\ validade = "valida" <=>
         /\ DataDoCalendario(DiaDaMascara, MesDaMascara, AnoDaMascara)
         /\ AnoDaMascara >= 1980
         /\ AnoDaMascara <= anoAtual + 10
    /\ validade \in {"valida", "invalida"}
    /\ mascara = <<"2","9","/","0","2","/","2","0","2","4">> => validade = "valida"
    /\ mascara \in { <<"2","9","/","0","2","/","2","0","2","3">>, <<"3","1","/","0","4","/","2","0","2","4">>, <<"1","5","/","1","3","/","2","0","2","4">>,
                     <<"0","1","/","0","1","/","1","9","7","9">> } => validade = "invalida"

\* The 29th of February of a leap year was found valid.
C14_Witness ==
  /\ MascaraCompleta
  /\ mascara = <<"2","9","/","0","2","/","2","0","2","4">>
  /\ validade = "valida"

----------------------------------------------------------------------------
(* C15.  For every raw text format_input returns a text: the first 8       *)
(* digits of the raw text in their order, with a "/" after the 2nd of them *)
(* when there are more than 2 and after the 4th when there are more than   *)
(* 4, and nothing else; its length is the number of those digits plus the  *)
(* number of separators.                                                   *)
C15_OitoDigitosComSeparadores ==
  pcMascara = "formatado" =>
    LET d == Primeiros(SoDigitos(entradaData), 8)
        n == Len(d)
    IN  /\ SoDigitos(mascara) = d
        /\ \A i \in 1..Len(mascara) : mascara[i] = "/" <=> i \in {3, 6}
        /\ Len(mascara) = n + (IF n > 4 THEN 2 ELSE IF n > 2 THEN 1 ELSE 0)
        /\ PrefixoDeMascara(mascara)

\* A raw text with other characters among and after its 8 digits.
C15_Witness ==
  /\ pcMascara = "formatado"
  /\ entradaData = <<"0","1","0","2","-","2","0","2","4","x","y","z">>
  /\ mascara = <<"0","1","/","0","2","/","2","0","2","4">>

----------------------------------------------------------------------------
(* C16.  format_input of what format_input returned is that same text.     *)
C16_Idempotente ==
  pcMascara = "formatado" => format_input(mascara) = mascara

\* The raw text was a mask with a separator already.
C16_Witness ==
  /\ pcMascara = "formatado"
  /\ entradaData = mascara
  /\ Len(mascara) \in {4, 5}
  /\ mascara[3] = "/"

----------------------------------------------------------------------------
(* The routes of the API (src/app/api/lembretes/route.ts and               *)
(* src/app/api/lembretes/[id]/route.ts) and the table they write           *)
(* (model Lembrete of the Prisma schema).                                  *)
(*                                                                         *)
(* A JSON value is a record of its type and content.  A row keeps the      *)
(* columns id, texto, data, prioridade and concluido; the two timestamps   *)
(* and the optional columns, which no route writes, are left out.          *)

\* The longest texto LembreteSchema accepts (route.ts, line 7).
MaxTexto == 500

\* The largest number of rows ever created.
MaxCriados == 1

\* The largest number of DELETE requests between their two queries.
MaxEmCurso == 2

JString(s) == [tipo |-> "string", s |-> s, n |-> 0]

JNumber(n) == [tipo |-> "number", s |-> <<>>, n |-> n]

JNull == [tipo |-> "null", s |-> <<>>, n |-> 0]

\* A property the body does not have.
Ausente == [tipo |-> "undefined", s |-> <<>>, n |-> 0]

\* !v that is true of undefined only.
Falsy_SoAusente(v) == v.tipo = "undefined"

\* !v that is true of undefined and null only.
Falsy_SoNulos(v) == v.tipo \in {"undefined", "null"}

\* !v of lines 129, 221 and 232.
Falsy(v) ==
  \/ v.tipo \in {"undefined", "null"}
  \/ v.tipo = "string" /\ v.s = <<>>
  \/ v.tipo = "number" /\ v.n = 0

\* LembreteSchema.parse(body) does not throw a ZodError.
LembreteSchema_SemMaximo(body) ==
  /\ body.texto.tipo = "string"
  /\ Len(body.texto.s) >= 1
  /\ body.data.tipo = "string"

LembreteSchema(body) ==
  /\ body.texto.tipo = "string"
  /\ Len(body.texto.s) >= 1
  /\ Len(body.texto.s) <= MaxTexto
  /\ body.data.tipo = "string"

\* The digits of s[de..ate] as a number, NaN if one of them is no digit.
Campo(s, de, ate) == NumberDe(SubSeq(s, de, ate))

\* Date.parse of the runtime of the server for the two ISO forms,
\* YYYY-MM-DD and YYYY-MM-DDTHH:mm:ss.sssZ, both in UTC.  A month must be
\* 1 to 12 and a day 1 to 31; a day past the end of its month is carried
\* into the next month.  Every other text sent here is rejected by the
\* ISO parser and by the legacy parser.
DateParse(s) ==
  LET soData == /\ Len(s) = 10
                /\ s[5] = "-" /\ s[8] = "-"
      comHora == /\ Len(s) = 24
                 /\ s[5] = "-" /\ s[8] = "-" /\ s[11] = "T"
                 /\ s[14] = ":" /\ s[17] = ":" /\ s[20] = "." /\ s[24] = "Z"
  IN  IF ~(soData \/ comHora)
      THEN InvalidDate
      ELSE LET a  == Campo(s, 1, 4)
               m  == Campo(s, 6, 7)
               d  == Campo(s, 9, 10)
               h  == IF comHora THEN Campo(s, 12, 13) ELSE Numero(0)
               mi == IF comHora THEN Campo(s, 15, 16) ELSE Numero(0)
               sg == IF comHora THEN Campo(s, 18, 19) ELSE Numero(0)
               ml == IF comHora THEN Campo(s, 21, 23) ELSE Numero(0)
           IN  IF \/ a.nan \/ m.nan \/ d.nan \/ h.nan \/ mi.nan \/ sg.nan \/ ml.nan
                  \/ m.n < 1 \/ m.n > 12 \/ d.n < 1 \/ d.n > 31
                  \/ h.n > 23 \/ mi.n > 59 \/ sg.n > 59
               THEN InvalidDate
               ELSE DateDe(DiasDesdeCivil(a.n, m.n, 1) + d.n - 1,
                           ((h.n * 60 + mi.n) * 60 + sg.n) * 1000 + ml.n)

\* new Date(v) for a value of a JSON body.
NewDate(v) ==
  CASE v.tipo = "string" -> DateParse(v.s)
    [] v.tipo = "number" -> DateDe(0, v.n)
    [] v.tipo = "null"   -> DateDe(0, 0)
    [] OTHER             -> InvalidDate

\* parseInt(s): the number its leading digits write, NaN without one.
ParseInt(s) ==
  LET n == CHOOSE k \in 0..Len(s) :
             /\ \A i \in 1..k : EhDigito(s[i])
             /\ k < Len(s) => ~EhDigito(s[k + 1])
  IN  IF n = 0 THEN NaN ELSE NumberDe(SubSeq(s, 1, n))

\* The row prisma.lembrete.create inserts: the columns given, the serial
\* and the defaults of the schema.
Linha(id, texto, data) ==
  [id |-> id, texto |-> texto, data |-> data, prioridade |-> 0, concluido |-> FALSE]

\* The payload of a response that carries no row.
SemLinha == Linha(0, <<>>, InvalidDate)

\* The rows with this id (at most one: id is the primary key).
Com(id) == {i \in 1..Len(tabela) : tabela[i].id = id}

\* The arguments of create and update pass the validation of the Prisma
\* client: texto is a String and data a valid Date.
PrismaAceita(texto, data) == texto.tipo = "string" /\ data.valida

\* error.errors[0].message of line 91: the first issue of the ZodError,
\* texto before data, min before max.
PrimeiroErro(body) ==
  IF body.texto.tipo = "undefined" THEN "Required"
  ELSE IF body.texto.tipo # "string" THEN "Expected string"
  ELSE IF Len(body.texto.s) < 1 THEN "O texto é obrigatório"
  ELSE IF Len(body.texto.s) > MaxTexto
       THEN "O texto deve ter no máximo 500 caracteres"
  ELSE IF body.data.tipo = "undefined" THEN "Required"
  ELSE "Expected string"

\* NextResponse.json of a row, of a message and of an error.
Responder(metodo, rota, status, mensagem, retorno) ==
  [metodo |-> metodo, rota |-> rota, status |-> status, mensagem |-> mensagem,
   retorno |-> retorno]

\* A body that is not JSON, and the properties of one that is.
CorpoIlegivel == [json |-> FALSE, texto |-> Ausente, data |-> Ausente]

Corpo(texto, data) == [json |-> TRUE, texto |-> texto, data |-> data]

\* The requests sent to the routes.
TextosEnviados ==
  { Ausente, JString(<<>>),
    JString([i \in 1..MaxTexto |-> "a"]),
    JString([i \in 1..(MaxTexto + 1) |-> "a"]) }

DatasEnviadas ==
  { Ausente, JString(<<>>), JString(<<"a","b","c">>),
    JString(<<"2","0","2","4","-","0","2","-","3","0","T","0","3",":","0","0",":","0","0",".","0","0","0","Z">>) }

Corpos ==
  {CorpoIlegivel} \cup {Corpo(t, d) : t \in TextosEnviados, d \in DatasEnviadas}

IdsEnviados ==
  { JNull, JString(<<"1">>), JString(<<"2">>), JString(<<"2","x">>), JString(<<"a","b","c">>) }

Rotas == {"/api/lembretes", "/api/lembretes/[id]"}

InitApi ==
  /\ InputParado
  /\ SugestoesParado
  /\ ClienteParado
  /\ MascaraParada
  /\ tabela = <<>>
  /\ sequenciaId = 0
  /\ emCurso = EmptyBag
  /\ resposta = Responder("nenhum", "nenhuma", 0, "", SemLinha)

\* POST /api/lembretes (route.ts, lines 68-100) of a request with this body.
POST(corpo) ==
  LET data == NewDate(corpo.data)
      responde(status, mensagem, retorno) ==
        Responder("POST", "/api/lembretes", status, mensagem, retorno)
  IN  /\ IF ~corpo.json
         THEN /\ resposta' = responde(500, "Erro ao criar lembrete", SemLinha)
              /\ UNCHANGED <<tabela, sequenciaId>>
         ELSE IF ~LembreteSchema(corpo)
         THEN /\ resposta' = responde(400, PrimeiroErro(corpo), SemLinha)
              /\ UNCHANGED <<tabela, sequenciaId>>
         ELSE IF ~PrismaAceita(corpo.texto, data)
         THEN /\ resposta' = responde(500, "Erro ao criar lembrete", SemLinha)
              /\ UNCHANGED <<tabela, sequenciaId>>
         ELSE LET lembreteCriado == Linha(sequenciaId + 1, corpo.texto.s, data)
              IN  /\ sequenciaId < MaxCriados
                  /\ tabela' = Append(tabela, lembreteCriado)
                  /\ sequenciaId' = sequenciaId + 1
                  /\ resposta' = responde(200, "", lembreteCriado)
      /\ UNCHANGED emCurso
      /\ UNCHANGED foraDaApi

\* PUT /api/lembretes?id= (route.ts, lines 215-260) of a request with this
\* id and this body.
PUT(id, corpo) ==
  LET data == NewDate(corpo.data)
      idNumero == NumberDe(id.s)
      responde(status, mensagem, retorno) ==
        Responder("PUT", "/api/lembretes", status, mensagem, retorno)
  IN  /\ IF Falsy(id)
         THEN /\ resposta' = responde(400, "ID é obrigatório", SemLinha)
              /\ UNCHANGED tabela
         ELSE IF ~corpo.json
         THEN /\ resposta' = responde(500, "Erro ao atualizar lembrete", SemLinha)
              /\ UNCHANGED tabela
         ELSE IF Falsy(corpo.texto) \/ Falsy(corpo.data)
         THEN /\ resposta' = responde(400, "Texto e data são obrigatórios", SemLinha)
              /\ UNCHANGED tabela
         ELSE IF \/ idNumero.nan
                 \/ ~PrismaAceita(corpo.texto, data)
                 \/ Com(idNumero.n) = {}
         THEN /\ resposta' = responde(500, "Erro ao atualizar lembrete", SemLinha)
              /\ UNCHANGED tabela
         ELSE LET i == CHOOSE k \in Com(idNumero.n) : TRUE
                  atualizado == [tabela[i] EXCEPT !.texto = corpo.texto.s,
                                                  !.data = data]
              IN  /\ tabela' = [tabela EXCEPT ![i] = atualizado]
                  /\ resposta' = responde(200, "", atualizado)
      /\ UNCHANGED <<sequenciaId, emCurso>>
      /\ UNCHANGED foraDaApi

\* DELETE /api/lembretes?id= (route.ts, lines 121-161) and
\* DELETE /api/lembretes/[id] ([id]/route.ts, lines 18-42), up to the
\* answer of findUnique.
DELETE_findUnique(rota, id) ==
  LET idNumero == IF rota = "/api/lembretes" THEN NumberDe(id.s) ELSE ParseInt(id.s)
      responde(status, mensagem) == Responder("DELETE", rota, status, mensagem, SemLinha)
  IN  /\ rota = "/api/lembretes/[id]" => id.tipo = "string" /\ id.s # <<>>
      /\ IF rota = "/api/lembretes" /\ Falsy(id)
         THEN /\ resposta' = responde(400, "ID é obrigatório")
              /\ UNCHANGED emCurso
         ELSE IF idNumero.nan
         THEN /\ resposta' = responde(400, "ID inválido")
              /\ UNCHANGED emCurso
         ELSE IF Com(idNumero.n) = {}
         THEN /\ resposta' = responde(404, "Lembrete não encontrado")
              /\ UNCHANGED emCurso
         ELSE /\ BagCardinality(emCurso) < MaxEmCurso
              /\ emCurso' = emCurso (+) SetToBag({[rota |-> rota, id |-> idNumero.n]})
              /\ UNCHANGED resposta
      /\ UNCHANGED <<tabela, sequenciaId>>
      /\ UNCHANGED foraDaApi

\* The rest of both DELETE handlers: prisma.lembrete.delete and the
\* response (route.ts, lines 167-192; [id]/route.ts, lines 45-59).
DELETE_delete(pedido) ==
  LET responde(status, mensagem, retorno) ==
        Responder("DELETE", pedido.rota, status, mensagem, retorno)
  IN  /\ emCurso' = emCurso (-) SetToBag({pedido})
      /\ IF Com(pedido.id) = {}
         THEN /\ resposta' = responde(500, IF pedido.rota = "/api/lembretes"
                                           THEN "Erro ao deletar lembrete"
                                           ELSE "Erro ao deletar o lembrete", SemLinha)
              /\ UNCHANGED tabela
         ELSE LET i == CHOOSE j \in Com(pedido.id) : TRUE
              IN  /\ tabela' = Sem(tabela, i)
                  /\ resposta' = responde(200, "Lembrete deletado com sucesso",
                                          IF pedido.rota = "/api/lembretes"
                                          THEN tabela[i] ELSE SemLinha)
      /\ UNCHANGED sequenciaId
      /\ UNCHANGED foraDaApi

\* A request arrives and its handler runs up to its next query.
PedidoPOST == \E corpo \in Corpos : POST(corpo)

PedidoPUT == \E id \in IdsEnviados, corpo \in Corpos : PUT(id, corpo)

PedidoDELETE == \E rota \in Rotas, id \in IdsEnviados : DELETE_findUnique(rota, id)

\* The database answers a query of a handler.
RespostaDoBanco == \E pedido \in BagToSet(emCurso) : DELETE_delete(pedido)

NextApi == PedidoPOST \/ PedidoPUT \/ PedidoDELETE \/ RespostaDoBanco

SpecApi == InitApi /\ [][NextApi]_vars

----------------------------------------------------------------------------
(* Vocabulary of the properties about the routes.                          *)

\* The day number and the time of day are those of a date of the calendar.
DataReal(data) ==
  /\ data.valida
  /\ data.ms \in 0..86399999
  /\ LET c == CivilDeDias(data.dias)
         bissexto == c.ano % 4 = 0 /\ (c.ano % 100 # 0 \/ c.ano % 400 = 0)
         ultimo == CASE c.mes = 2 -> IF bissexto THEN 29 ELSE 28
                     [] c.mes \in {4, 6, 9, 11} -> 30
                     [] OTHER -> 31
     IN  /\ c.mes \in 1..12
         /\ c.dia \in 1..ultimo
         /\ DiasDesdeCivil(c.ano, c.mes, c.dia) = data.dias

----------------------------------------------------------------------------
(* C18.  After any sequence of POST, PUT and DELETE requests every stored  *)
(* reminder has a texto of at most 500 characters.  PUT does not parse     *)
(* its body with LembreteSchema: it stores any texto that is not empty.    *)
C18_TextoAte500 ==
  \A i \in 1..Len(tabela) : Len(tabela[i].texto) <= 500

----------------------------------------------------------------------------
----------------------------------------------------------------------------
(* C20.  A POST whose texto is missing, empty or longer than 500           *)
(* characters, or whose data is missing, is answered with status 400 and   *)
(* leaves the table as it was; a POST whose body passes the schema and     *)
(* whose data is a parseable date appends exactly one row, with that       *)
(* texto and that date, and returns it with status 200.  Every step that   *)
(* answers a POST is examined, for each body that step can be the answer   *)
(* to.                                                                     *)
C20_POSTValidaECria ==
  [][resposta'.metodo = "POST" =>
       \A corpo \in Corpos :
         POST(corpo) =>
           LET texto   == corpo.texto
               recusa  == /\ corpo.json
                          /\ \/ texto.tipo = "undefined"
                             \/ texto.tipo = "string" /\ Len(texto.s) \notin 1..500
                             \/ corpo.data.tipo = "undefined"
               aceita  == /\ corpo.json
                          /\ texto.tipo = "string" /\ Len(texto.s) \in 1..500
                          /\ corpo.data.tipo = "string"
                          /\ DateParse(corpo.data.s).valida
           IN  /\ recusa => resposta'.status = 400 /\ tabela' = tabela
               /\ aceita =>
                    /\ resposta'.status = 200
                    /\ Len(tabela') = Len(tabela) + 1
                    /\ SubSeq(tabela', 1, Len(tabela)) = tabela
                    /\ tabela'[Len(tabela')] = resposta'.retorno
                    /\ resposta'.retorno.texto = texto.s
                    /\ resposta'.retorno.data = DateParse(corpo.data.s)
                    /\ Com(resposta'.retorno.id) = {}]_vars

\* After a reminder with a texto of 500 characters was created, a POST
\* with a texto of 501 characters was answered with 400.
C20_Witness ==
  /\ resposta.metodo = "POST"
  /\ resposta.status = 400
  /\ resposta.mensagem = "O texto deve ter no máximo 500 caracteres"
  /\ Len(tabela) = 1
  /\ Len(tabela[1].texto) = 500

----------------------------------------------------------------------------
(* C21.  A DELETE for an id without a stored reminder is answered 404 and  *)
(* leaves the table as it was, and a DELETE for a stored id removes that   *)
(* row and no other, also when two DELETE requests for the same id are     *)
(* between findUnique and delete at the same time.  The handler that       *)
(* deletes second finds no row: prisma.lembrete.delete throws and the      *)
(* catch answers 500.                                                      *)
C21_DELETEDeQuemNaoExiste ==
  [][/\ \A rota \in Rotas, id \in IdsEnviados :
          (DELETE_findUnique(rota, id) /\ resposta'.status = 404) =>
            tabela' = tabela
     /\ \A pedido \in BagToSet(emCurso) :
          DELETE_delete(pedido) =>
            LET linhas == {i \in 1..Len(tabela) : tabela[i].id = pedido.id}
            IN  IF linhas = {}
                THEN resposta'.status = 404 /\ tabela' = tabela
                ELSE /\ resposta'.status = 200
                     /\ tabela' = SelectSeq(tabela, LAMBDA l : l.id # pedido.id)
                     /\ Cardinality(linhas) = 1]_vars

----------------------------------------------------------------------------
(* C22.  A POST, PUT or DELETE that is answered 400, 404 or 500 leaves the *)
(* table as it was; PUT without id, or with a texto or a data that is      *)
(* missing or empty, is answered 400; PUT for an id without a stored       *)
(* reminder changes nothing.  The three statements about PUT are checked   *)
(* in the contrapositive: a step that answers a PUT otherwise than with    *)
(* 400 is the answer to no such request, and a step that changes the       *)
(* table is the answer to no PUT for an id without a row.                  *)
C22_ErroNaoEscreve ==
  [][LET vazio(v) == v.tipo = "undefined" \/ (v.tipo = "string" /\ Len(v.s) = 0)
         semLinha(id) == \/ NumberDe(id.s).nan
                         \/ \A i \in 1..Len(tabela) : tabela[i].id # NumberDe(id.s).n
     IN  /\ resposta'.status \in {400, 404, 500} => tabela' = tabela
         /\ (resposta'.metodo = "PUT" /\ resposta'.status # 400) =>
              \A id \in IdsEnviados, corpo \in Corpos :
                (\/ id.tipo = "null"
                 \/ corpo.json /\ (vazio(corpo.texto) \/ vazio(corpo.data))) =>
                  ~PUT(id, corpo)
         /\ (resposta'.metodo = "PUT" /\ tabela' # tabela) =>
              \A id \in IdsEnviados, corpo \in Corpos :
                (id.tipo = "string" /\ semLinha(id)) => ~PUT(id, corpo)]_vars

\* With a reminder stored and a DELETE of it between its two queries, a
\* PUT was answered 500 and the reminder is as it was created.
C22_Witness ==
  /\ resposta.metodo = "PUT"
  /\ resposta.status = 500
  /\ Len(tabela) = 1
  /\ Len(tabela[1].texto) = 500
  /\ BagCardinality(emCurso) = 1

----------------------------------------------------------------------------
(* Vocabulary of the properties about the requests of the client.          *)

\* A text of the form YYYY-MM-DD.
DataISO(s) ==
  /\ Len(s) = 10
  /\ \A i \in 1..10 : IF i \in {5, 8} THEN s[i] = "-" ELSE EhDigito(s[i])

\* The requests awaiting their response that delete the reminder `id`.
DeletesDe(id) ==
  {i \in 1..Len(pedidos) : pedidos[i].metodo = "DELETE" /\ pedidos[i].id = id}

----------------------------------------------------------------------------
(* C23.  When a reminder is being edited and salvarEdicao runs with a text *)
(* and a date that are not empty, a PUT with that text and with the date   *)
(* as YYYY-MM-DD is sent; when the response to it is ok, the edit mode is  *)
(* left, the edit fields are emptied and the list is fetched again.        *)
(* dataEditando holds the text of toISOString, which line 491 splits on    *)
(* "/": line 492 throws a RangeError and no request is sent.               *)
C23_EdicaoEnviaPUT ==
  [][/\ salvarEdicao =>
          /\ Len(pedidos') = Len(pedidos) + 1
          /\ LET enviado == pedidos'[Len(pedidos')]
             IN  /\ enviado.metodo = "PUT"
                 /\ enviado.id = editandoId
                 /\ enviado.texto = lembreteEditando
                 /\ DataISO(enviado.data)
     /\ \A i \in 1..Len(pedidos) :
          (pedidos[i].metodo = "PUT" /\ ContinuarSalvar(i, "ok")) =>
            /\ editandoId' = Nulo
            /\ lembreteEditando' = <<>>
            /\ dataEditando' = <<>>
            /\ pedidos'[i].metodo = "GET"]_vars

----------------------------------------------------------------------------
(* C24.  While a DELETE request of handleDelete(id) awaits its response,   *)
(* deletandoId is id, so that no second DELETE for that id is started, and *)
(* deletandoId is null when none does.  handleDelete never calls           *)
(* setDeletandoId: deletandoId is null throughout and the delete button    *)
(* of line 240 is never disabled.                                          *)
C24_DeletandoIdMarcaOPedido ==
  /\ \A i \in 1..Len(pedidos) :
       pedidos[i].metodo = "DELETE" =>
         /\ deletandoId = pedidos[i].id
         /\ Cardinality(DeletesDe(pedidos[i].id)) = 1
  /\ (\A i \in 1..Len(pedidos) : pedidos[i].metodo # "DELETE") => deletandoId = Nulo

----------------------------------------------------------------------------
(* C25.  carregando is true exactly when a request of buscarLembretes,     *)
(* handleSubmit, salvarEdicao or handleDelete awaits its response.  Each   *)
(* handler sets carregando to false in its finally, whatever else is       *)
(* awaited: the first of two overlapping requests to end leaves it false.  *)
C25_CarregandoEnquantoHaPedido == carregando <=> pedidos # <<>>

----------------------------------------------------------------------------
(* C26.  When handleDelete(id) ends after a response that is ok, the list  *)
(* is the list before it without the entries of that id, the others in     *)
(* their order, and erro is empty; when it ends after a response that is   *)
(* not ok or after a failed fetch, the list is as it was and erro is not   *)
(* empty.  erro is emptied when the request is sent only: another handler  *)
(* that fails meanwhile leaves its message in place.                       *)
C26_ListaEErroAposDelete ==
  [][\A i \in 1..Len(pedidos), r \in Respostas :
       (pedidos[i].metodo = "DELETE" /\ ContinuarDelete(i, r)) =>
         IF r = "ok"
         THEN /\ lembretesCliente' =
                   SelectSeq(lembretesCliente, LAMBDA l : l.id # pedidos[i].id)
              /\ erro' = ""
         ELSE /\ lembretesCliente' = lembretesCliente
              /\ erro' # ""]_vars

-----------------------------------------------------------------------------
(* The context pass and the patterns of more than one word: calls whose    *)
(* text is made of the words of the pattern bank.                          *)

\* The words typed: those of "Compra de", the pattern "Evento:" and the
\* beginning of a category.
PedacosDePadroes == { <<"C","o","m","p","r","a">>, <<"d","e">>, <<"E","v","e","n","t","o",":">>, <<"T","r">> }

EntradasDePadroes ==
  { Join(ps, " ") : ps \in UNION { [1..n -> PedacosDePadroes] : n \in 1..MaxPalavras } }

InitContexto ==
  /\ InputParado
  /\ ClienteParado
  /\ MascaraParada
  /\ ApiParada
  /\ bancos = BancosLiterais
  /\ chamadas = 0
  /\ lembretes \in Historicos
  /\ textoAtual \in EntradasDePadroes
  /\ pc = "chamada"
  /\ palavras = <<>>
  /\ ultimaPalavra = <<>>
  /\ palavrasFrequentes = <<>>
  /\ sugestoesContexto = <<>>
  /\ sugestoesPalavra = <<>>
  /\ resultado = <<>>

SpecContexto == InitContexto /\ [][NextSugestoes]_vars

\* The entries of the pattern bank that contain a space.
PadroesComEspaco == { p \in Elems(PADROES_COMUNS) : \E i \in 1..Len(p) : p[i] = " " }

\* C27.  For a text that is not blank, the context pass yields no entry of
\* the pattern bank that contains a space, even when the typed text contains
\* that entry: the only patterns it can yield are "Evento:", "Projeto:" and
\* "Tarefa:", and a pattern of more than one word that is in the result was
\* produced by the prefix pass.
C27_PadraoComEspacoSoPorPrefixo ==
  RetornouComTexto =>
    /\ Elems(sugestoesContexto) \cap PadroesComEspaco = {}
    /\ Elems(sugestoesContexto) \cap Elems(PADROES_COMUNS)
         \subseteq { <<"E","v","e","n","t","o",":">>, <<"P","r","o","j","e","t","o",":">>, <<"T","a","r","e","f","a",":">> }
    /\ Elems(resultado) \cap PadroesComEspaco \subseteq Elems(sugestoesPalavra)

\* The text "Evento: Compra" was typed: the context pass yields "Evento:",
\* and "Compra de" is in the result, produced by the prefix pass and not by
\* the context pass.
C27_Witness ==
  /\ RetornouComTexto
  /\ textoAtual = <<"E","v","e","n","t","o",":"," ","C","o","m","p","r","a">>
  /\ <<"E","v","e","n","t","o",":">> \in Elems(sugestoesContexto)
  /\ <<"C","o","m","p","r","a"," ","d","e">> \in Elems(resultado)
  /\ <<"C","o","m","p","r","a"," ","d","e">> \in Elems(sugestoesPalavra)
  /\ <<"C","o","m","p","r","a"," ","d","e">> \notin Elems(sugestoesContexto)

-----------------------------------------------------------------------------
(* The input with suggestions (src/app/components/SugestoesInput.tsx).     *)
(*                                                                         *)
(* A handler runs in one step with the state of the last render.  The      *)
(* effect of line 42 is a step of its own: it is due while [value,         *)
(* lembretes] differ from what it saw when it ran last, and other events   *)
(* may be handled before it runs.                                          *)

\* gerarSugestoes for a text that is not blank (aiService.ts, lines 88-102).
gerarSugestoesDoTexto(ls, texto) ==
  LET ps == Split(ToLowerCase(texto), " ")
  IN  Combinar(gerarSugestoesContexto(PalavrasFrequentesDe(ls), ps),
               gerarSugestoesPalavra(ps[Len(ps)]))

\* What the user types in the input.
ValoresDigitados == { <<>>, <<"c","o">>, <<"E","v","e","n","t","o",":">>, <<"x","y">> }

\* The arrays the parent passes as `lembretes`.
HistoricosDoInput == { <<>>, << [texto |-> <<"P","a","g","a","r"," ","c","o","n","t","a"," ","d","e"," ","l","u","z">>] >> }

\* The keys handleKeyDown has a case for.
TeclasDoInput == { "ArrowDown", "ArrowUp", "Enter", "Escape" }

\* The component is mounted with an empty value; its effect has not run.
InitInput ==
  /\ SugestoesParado
  /\ ClienteParado
  /\ MascaraParada
  /\ ApiParada
  /\ value = <<>>
  /\ historico \in HistoricosDoInput
  /\ sugestoes = <<>>
  /\ mostrarSugestoes = FALSE
  /\ sugestaoSelecionada = -1
  /\ depsEfeito = <<>>
  /\ eventoInput = "montagem"

\* The effect without the reset of the highlighted index (line 47).
useEffect_SemReinicio ==
  /\ depsEfeito # <<value, historico>>
  /\ depsEfeito' = <<value, historico>>
  /\ IF ~EmBranco(value)
     THEN LET novasSugestoes == gerarSugestoesDoTexto(historico, value)
          IN  /\ sugestoes' = novasSugestoes
              /\ mostrarSugestoes' = (Len(novasSugestoes) > 0)
              /\ UNCHANGED sugestaoSelecionada
     ELSE /\ sugestoes' = <<>>
          /\ mostrarSugestoes' = FALSE
          /\ UNCHANGED sugestaoSelecionada
  /\ UNCHANGED <<value, historico, eventoInput>>
  /\ UNCHANGED foraDoInput

\* The effect (lines 42-52).
useEffect ==
  /\ depsEfeito # <<value, historico>>
  /\ depsEfeito' = <<value, historico>>
  /\ IF ~EmBranco(value)
     THEN LET novasSugestoes == gerarSugestoesDoTexto(historico, value)
          IN  /\ sugestoes' = novasSugestoes
              /\ mostrarSugestoes' = (Len(novasSugestoes) > 0)
              /\ sugestaoSelecionada' = -1
     ELSE /\ sugestoes' = <<>>
          /\ mostrarSugestoes' = FALSE
          /\ UNCHANGED sugestaoSelecionada
  /\ UNCHANGED <<value, historico, eventoInput>>
  /\ UNCHANGED foraDoInput

\* onChange of the input (line 95): the parent stores the text typed.
onChange(texto) ==
  /\ value' = texto
  /\ eventoInput' = "change"
  /\ UNCHANGED <<historico, sugestoes, mostrarSugestoes, sugestaoSelecionada,
                 depsEfeito>>
  /\ UNCHANGED foraDoInput

\* The parent passes another array of reminders (HomeClient.tsx, lines 103
\* and 563): a new array, whatever it holds.
NovosLembretes(ls) ==
  /\ historico' = ls
  /\ depsEfeito' = <<>>
  /\ eventoInput' = "lembretes"
  /\ UNCHANGED <<value, sugestoes, mostrarSugestoes, sugestaoSelecionada>>
  /\ UNCHANGED foraDoInput

\* onFocus (line 97).
onFocus ==
  /\ mostrarSugestoes' = (Len(sugestoes) > 0)
  /\ eventoInput' = "focus"
  /\ UNCHANGED <<value, historico, sugestoes, sugestaoSelecionada, depsEfeito>>
  /\ UNCHANGED foraDoInput

\* handleKeyDown (lines 55-81).
handleKeyDown(tecla) ==
  /\ UNCHANGED <<historico, sugestoes, depsEfeito>>
  /\ UNCHANGED foraDoInput
  /\ IF ~mostrarSugestoes
     THEN /\ eventoInput' = tecla
          /\ UNCHANGED <<value, mostrarSugestoes, sugestaoSelecionada>>
     ELSE CASE tecla = "ArrowDown" ->
                 /\ sugestaoSelecionada' =
                      IF sugestaoSelecionada < Len(sugestoes) - 1
                      THEN sugestaoSelecionada + 1 ELSE sugestaoSelecionada
                 /\ eventoInput' = tecla
                 /\ UNCHANGED <<value, mostrarSugestoes>>
            [] tecla = "ArrowUp" ->
                 /\ sugestaoSelecionada' =
                      IF sugestaoSelecionada > -1
                      THEN sugestaoSelecionada - 1 ELSE sugestaoSelecionada
                 /\ eventoInput' = tecla
                 /\ UNCHANGED <<value, mostrarSugestoes>>
            [] tecla = "Enter" ->
                 IF sugestaoSelecionada >= 0 /\ sugestaoSelecionada < Len(sugestoes)
                 THEN /\ value' = sugestoes[sugestaoSelecionada + 1]
                      /\ mostrarSugestoes' = FALSE
                      /\ eventoInput' = "escolha"
                      /\ UNCHANGED sugestaoSelecionada
                 ELSE /\ eventoInput' = tecla
                      /\ UNCHANGED <<value, mostrarSugestoes, sugestaoSelecionada>>
            [] tecla = "Escape" ->
                 /\ mostrarSugestoes' = FALSE
                 /\ eventoInput' = tecla
                 /\ UNCHANGED <<value, sugestaoSelecionada>>

\* handleSugestaoClick (lines 84-87) for the button of index `index`, which
\* is rendered while the list is shown (line 102).
handleSugestaoClick(index) ==
  /\ mostrarSugestoes
  /\ index \in 0..(Len(sugestoes) - 1)
  /\ value' = sugestoes[index + 1]
  /\ mostrarSugestoes' = FALSE
  /\ eventoInput' = "escolha"
  /\ UNCHANGED <<historico, sugestoes, sugestaoSelecionada, depsEfeito>>
  /\ UNCHANGED foraDoInput

Digitacao == \E texto \in ValoresDigitados : onChange(texto)

LembretesDoPai == \E ls \in HistoricosDoInput : NovosLembretes(ls)

Tecla == \E tecla \in TeclasDoInput : handleKeyDown(tecla)

Clique == \E index \in 0..(Len(sugestoes) - 1) : handleSugestaoClick(index)

NextInput == useEffect \/ Digitacao \/ LembretesDoPai \/ onFocus \/ Tecla \/ Clique

SpecInput == InitInput /\ [][NextInput]_vars

\* C28.  Whenever the list of suggestions is shown, it has an entry and the
\* highlighted index is -1 or the index of one of its entries.
C28_ListaVisivelTemSelecaoValida ==
  mostrarSugestoes =>
    /\ Len(sugestoes) > 0
    /\ -1 <= sugestaoSelecionada
    /\ sugestaoSelecionada <= Len(sugestoes) - 1

\* The list is shown with more than one entry and ArrowDown has brought the
\* highlight to the last of them.
C28_Witness ==
  /\ mostrarSugestoes
  /\ Len(sugestoes) > 1
  /\ sugestaoSelecionada = Len(sugestoes) - 1
  /\ eventoInput = "ArrowDown"

\* C29.  A click on a suggestion, or Enter with a highlighted one, makes the
\* value that suggestion, whatever had been typed; and while that choice is
\* the last event and the effect has seen the value it set, the list of
\* suggestions is hidden.
C29_EscolhaFechaALista ==
  [][/\ \A index \in 0..(Len(sugestoes) - 1) :
          handleSugestaoClick(index) => value' = sugestoes[index + 1]
     /\ (handleKeyDown("Enter") /\ eventoInput' = "escolha") =>
          value' = sugestoes[sugestaoSelecionada + 1]
     /\ (eventoInput' = "escolha" /\ depsEfeito' = <<value', historico'>>) =>
          ~mostrarSugestoes']_vars
====
